---- MODULE Spec2Model ----
(***************************************************************************)
(* Model of the Autorus supplier engine (src/app/autorus_pw_session.py):   *)
(* the scoped browsing session, the resolution of a part code into a part  *)
(* reference, and the extraction of the first warehouse offer.             *)
(*                                                                         *)
(* Text is modelled as a sequence of one-character strings, so that        *)
(* trimming, filtering and percent-encoding are computed character by      *)
(* character as the code computes them.                                    *)
(***************************************************************************)
EXTENDS Integers, Sequences, FiniteSets, TLC

\* ------------------------------------------------------------------ bounds
\* longest part code the caller passes
MaxCodeLen == 2
\* most availability blocks on a parts page
MaxBlocks == 2
\* most engine calls made inside one scoped acquisition
MaxCalls == 2
\* rows the supplier loop of main is given
MaxRows == 2
\* length of the texts the static helpers are given
MaxTextLen == 3
\* clock ticks that make up the 60 seconds of the window of _RateLimiter
Window == 3
\* largest max_items_per_minute a _RateLimiter is built with
MaxLimit == 3
\* largest number of items one acquire asks for
MaxItems == 2
\* requests list_products_all is followed through
MaxPages == 3

\* ------------------------------------------------------------- characters
Letters == {"A", "B", "G", "R", "a"}
DecDigits == {"0", "1", "2", "3", "4", "5", "6", "7", "8", "9"}
\* characters for which str.isdigit() is true although int() rejects them
SuperDigits == {"^2"}
Spaces == {" ", "\n"}

IsSpace(ch) == ch \in Spaces
IsAlnum(ch) == ch \in Letters \cup DecDigits \cup SuperDigits
IsDigit(ch) == ch \in DecDigits \cup SuperDigits
\* characters urllib.parse.quote never encodes
Unreserved(ch) == ch \in Letters \cup DecDigits \cup {"_", ".", "-", "~"}

Upper(ch) == IF ch = "a" THEN "A" ELSE ch

\* percent-encoding of one character that is not kept as is
PctOf(ch) ==
    CASE ch = " " -> <<"%", "2", "0">>
      [] ch = "\n" -> <<"%", "0", "A">>
      [] ch = "/" -> <<"%", "2", "F">>
      [] ch = "^2" -> <<"%", "C", "2", "%", "B", "2">>
      [] ch = "," -> <<"%", "2", "C">>
      [] OTHER -> <<"%", "3", "F">>

\* ------------------------------------------------------------------ text
RECURSIVE LStrip(_)
LStrip(s) == IF s # <<>> /\ IsSpace(Head(s)) THEN LStrip(Tail(s)) ELSE s

RECURSIVE RStrip(_)
RStrip(s) ==
    IF s # <<>> /\ IsSpace(s[Len(s)]) THEN RStrip(SubSeq(s, 1, Len(s) - 1)) ELSE s

\* str.strip()
Strip(s) == RStrip(LStrip(s))

\* str.upper()
UpperAll(s) == [i \in 1..Len(s) |-> Upper(s[i])]

\* a replace that leaves the commas
CommasKept(s) == s

\* str.replace(",", ".")
CommasToDots(s) == [i \in 1..Len(s) |-> IF s[i] = "," THEN "." ELSE s[i]]

\* an element, or an attribute, that the markup does not have
NoEl == <<"<absent>">>

\* collapse every whitespace run to one space; the argument has no leading space
RECURSIVE Squeeze(_)
Squeeze(s) ==
    IF s = <<>> THEN <<>>
    ELSE IF IsSpace(Head(s))
         THEN (IF LStrip(s) = <<>> THEN <<>> ELSE <<" ">> \o Squeeze(LStrip(s)))
         ELSE <<Head(s)>> \o Squeeze(Tail(s))

\* _text(el): "" for a missing element, else the whitespace-normalised text
Text(el) == IF el = NoEl THEN <<>> ELSE Squeeze(LStrip(el))

\* quote(s, safe=safe): every character outside the unreserved set and outside
\* safe is percent-encoded
RECURSIVE Quote(_, _)
Quote(s, safe) ==
    IF s = <<>> THEN <<>>
    ELSE (IF Unreserved(Head(s)) \/ Head(s) \in safe
          THEN <<Head(s)>> ELSE PctOf(Head(s))) \o Quote(Tail(s), safe)

\* a normalization that keeps the case of the letters
NormalizeKeepsCase(value) == SelectSeq(value, IsAlnum)

\* _normalize_pcode
NormalizePcode(value) == SelectSeq(UpperAll(value), IsAlnum)

\* a variant list without the compact form
VariantsBaseOnly(pcode) ==
    LET base == Strip(pcode)
    IN  SelectSeq(<<base>>, LAMBDA x : x # <<>>)

\* a variant list that puts the compact form first
VariantsCompactFirst(pcode) ==
    LET base == Strip(pcode)
        compact == SelectSeq(base, IsAlnum)
        out == (IF compact # <<>> /\ compact # base THEN <<compact>> ELSE <<>>) \o <<base>>
    IN  SelectSeq(out, LAMBDA x : x # <<>>)

\* variants that keep an empty code as a variant
VariantsKeepEmpty(pcode) ==
    LET base == Strip(pcode)
        compact == SelectSeq(base, IsAlnum)
    IN  <<base>> \o (IF compact # <<>> /\ compact # base THEN <<compact>> ELSE <<>>)

\* _variants_for_search
VariantsForSearch(pcode) ==
    LET base == Strip(pcode)
        compact == SelectSeq(base, IsAlnum)
        out == <<base>> \o (IF compact # <<>> /\ compact # base THEN <<compact>> ELSE <<>>)
    IN  SelectSeq(out, LAMBDA x : x # <<>>)

\* ------------------------------------------------------------------ URLs
BASE == <<"https://b2b.autorus.ru">>

\* an address built from brand and number as they are, without encoding
BuildPartsUrlUnquoted(brand, number) ==
    BASE \o <<"/parts/">> \o brand \o <<"/">> \o number

\* _build_parts_url
BuildPartsUrl(brand, number) ==
    BASE \o <<"/parts/">> \o Quote(brand, {}) \o <<"/">> \o Quote(number, {})

\* the search address of one variant (quote's default keeps "/")
SearchUrl(one) == BASE \o <<"/search?pcode=">> \o Quote(one, {"/"}) \o <<"&whCode=">>

\* urljoin(current_url, link) for a link that is an absolute path
UrlJoin(currentUrl, link) == <<Head(currentUrl)>> \o link

\* ---------------------------------------------------------------- parsing
RECURSIVE DecValue(_)
DecValue(ds) ==
    IF ds = <<>> THEN 0
    ELSE 10 * DecValue(SubSeq(ds, 1, Len(ds) - 1))
         + (CHOOSE d \in 0..9 : ToString(d) = ds[Len(ds)])

AllDecimal(ds) == \A i \in 1..Len(ds) : ds[i] \in DecDigits

\* what a Python call produced: a value, or the exception it raised
Returned(v) == [ok |-> TRUE, val |-> v, exc |-> "none"]
Raised(e) == [ok |-> FALSE, val |-> 0, exc |-> e]

\* a parse that reads a leading minus sign as the sign of the number
ParseIntSigned(s) ==
    LET digits == SelectSeq(s, IsDigit)
    IN  IF digits = <<>> THEN Returned(0)
        ELSE IF ~AllDecimal(digits) THEN Raised("ValueError")
        ELSE IF Head(s) = "-" THEN Returned(0 - DecValue(digits))
        ELSE Returned(DecValue(digits))

\* _parse_int: int() of the characters str.isdigit() keeps; int() raises
\* ValueError on a digit character that is not a decimal digit
ParseInt(s) ==
    LET digits == SelectSeq(s, IsDigit)
    IN  IF digits = <<>> THEN Returned(0)
        ELSE IF AllDecimal(digits) THEN Returned(DecValue(digits))
        ELSE Raised("ValueError")

\* a decimal amount mant / 10^scale, without trailing zeros in the fraction
RECURSIVE Amount(_, _)
Amount(mant, scale) ==
    IF scale > 0 /\ mant % 10 = 0 THEN Amount(mant \div 10, scale - 1)
    ELSE [mant |-> mant, scale |-> scale]

Zero == Amount(0, 0)

\* _parse_price: keep digits, "," and "."; "," becomes "."; float() of the rest,
\* and 0.0 when float() rejects it
ParsePrice(s) ==
    LET kept == SelectSeq(s, LAMBDA ch : IsDigit(ch) \/ ch \in {",", "."})
        cleaned == CommasToDots(kept)
        digits == SelectSeq(cleaned, IsDigit)
        dots == SelectSeq(cleaned, LAMBDA ch : ch = ".")
        dotAt == CHOOSE i \in 1..Len(cleaned) : cleaned[i] = "."
    IN  IF cleaned = <<>> THEN Zero
        ELSE IF digits = <<>> \/ ~AllDecimal(digits) \/ Len(dots) > 1 THEN Zero
        ELSE IF Len(dots) = 0 THEN Amount(DecValue(digits), 0)
        ELSE Amount(DecValue(digits), Len(cleaned) - dotAt)

\* ------------------------------------------------------------------ pages
\* One rendered page, reduced to what the selectors of the engine read:
\*   guest            the body text holds the guest-mode phrase
\*   title            span.goodsInfoTitle is present
\*   tBrand, tNumber  span.article-brand / span.article-number inside the title
\*   dBrand, dNumber  the first .article-brand / .article-number of the document
\*   rows             the tr[class*='resultTr'] rows, in document order
\*   link             data-link of table.globalCase tbody tr.startSearching
\*   blocks           the .distrInfoBlockWrapper blocks, in document order
MkPage(guest, title, tBrand, tNumber, dBrand, dNumber, rows, link, blocks) ==
    [guest |-> guest, title |-> title, tBrand |-> tBrand, tNumber |-> tNumber,
     dBrand |-> dBrand, dNumber |-> dNumber, rows |-> rows, link |-> link,
     blocks |-> blocks]

\* about:blank, the page a fresh context opens
BlankPage == MkPage(FALSE, FALSE, NoEl, NoEl, NoEl, NoEl, <<>>, NoEl, <<>>)

Brand3RG == <<"3", "R", "G">>
BrandSpaced == <<" ", "A", " ", "\n", "B">>
Num31311 == <<"3", "1", "3", "1", "1">>
NumSlash == <<"1", "/", "2">>

TitleBrandEls == {NoEl, Brand3RG}
TitleNumberEls == {NoEl, Num31311}
DocBrandEls == {NoEl, BrandSpaced}
DocNumberEls == {NoEl, NumSlash}

\* a result row: the displayed code (.resultPartCode a) and the data-brand /
\* data-number attributes of its img.searchResultImg
MkRow(code, imgBrand, imgNumber) ==
    [code |-> code, imgBrand |-> imgBrand, imgNumber |-> imgNumber]

RowCodes == {NoEl, <<"a", "-", "A">>, <<"B">>}

ResultRows ==
    { MkRow(c, b, <<"7">>) : c \in RowCodes, b \in {NoEl, <<"G">>} }
      \cup { MkRow(<<"a", "-", "A">>, <<"G">>, <<" ">>) }

\* no row, one row, or a row that displays another code followed by one row
RowLists ==
    {<<>>} \cup { <<r>> : r \in ResultRows }
           \cup { <<MkRow(<<"B">>, <<"R">>, <<"8">>), r>> :
                    r \in { MkRow(c, <<"G">>, <<"7">>) : c \in RowCodes } }

Links == {NoEl, <<"/search/3RG/31311">>}

\* an availability block: the raw text of its four sub-elements
MkBlock(route, avail, price, deadline) ==
    [route |-> route, avail |-> avail, price |-> price, deadline |-> deadline]

BlkPlain == MkBlock(<<"A">>, <<"1", " ", "2">>, <<"1", " ", "2", ",", "5", "0">>, <<"2">>)
BlkSigned == MkBlock(NoEl, <<"-", "3">>, <<"-", "1", ".", "5">>, NoEl)
BlkOdd == MkBlock(<<"B">>, <<"^2">>, <<"1", ".", "2", ".", "3">>, <<"3">>)
BlkBare == MkBlock(NoEl, NoEl, NoEl, NoEl)
Blocks == {BlkPlain, BlkSigned, BlkOdd, BlkBare}

RECURSIVE SeqsUpTo(_, _)
SeqsUpTo(S, n) ==
    IF n = 0 THEN {<<>>}
    ELSE LET shorter == SeqsUpTo(S, n - 1)
         IN  shorter \cup { Append(s, x) : s \in shorter, x \in S }

BlockLists == SeqsUpTo(Blocks, MaxBlocks)

\* the title block and the document-wide brand/number elements agree: a span
\* inside the title is also an element of the document
TitleShapes ==
    { <<t, tb, tn, db, dn>> \in
        BOOLEAN \X TitleBrandEls \X TitleNumberEls \X DocBrandEls \X DocNumberEls :
        /\ (~t => tb = NoEl /\ tn = NoEl)
        /\ (tb # NoEl => db # NoEl)
        /\ (tn # NoEl => dn # NoEl) }

\* a title block that carries brand and number, and a page without a title
TitleHit == <<TRUE, Brand3RG, Num31311, BrandSpaced, NumSlash>>
NoTitle == <<FALSE, NoEl, NoEl, NoEl, NoEl>>

SearchPage(g, ts, rows, link) ==
    MkPage(g, ts[1], ts[2], ts[3], ts[4], ts[5], rows, link, <<>>)

\* pages a search or a detail-follow navigation can land on: every title shape
\* without rows, every row list without a title, a page with every kind of
\* hit at once, and guest-mode pages with and without product markup
SearchPages ==
    { SearchPage(FALSE, ts, <<>>, link) : ts \in TitleShapes, link \in Links }
      \cup { SearchPage(FALSE, NoTitle, rows, link) : rows \in RowLists, link \in Links }
      \cup { SearchPage(FALSE, TitleHit, <<r>>, link) : r \in ResultRows, link \in Links }
      \cup { SearchPage(TRUE, ts, <<>>, NoEl) : ts \in {NoTitle, TitleHit} }

PartsPage(g, db, dn, bl) == MkPage(g, FALSE, NoEl, NoEl, db, dn, <<>>, NoEl, bl)

\* pages a /parts navigation can land on: every brand and number with at most
\* one block, every block list under a brand and a number, and guest-mode
\* pages with and without product markup
PartsPages ==
    { PartsPage(FALSE, db, dn, bl) :
        db \in DocBrandEls, dn \in DocNumberEls,
        bl \in { l \in BlockLists : Len(l) <= 1 } }
      \cup { PartsPage(FALSE, BrandSpaced, NumSlash, bl) : bl \in BlockLists }
      \cup { PartsPage(TRUE, NoEl, NoEl, <<>>),
             PartsPage(TRUE, BrandSpaced, NumSlash, <<BlkPlain>>) }

\* ------------------------------------------------------- classification
Truthy(attr) == attr # NoEl /\ attr # <<>>

NoResolution == [kind |-> "none", brand |-> <<>>, number |-> <<>>, url |-> <<>>]
PartsResolution(brand, number) ==
    [kind |-> "parts", brand |-> brand, number |-> number,
     url |-> BuildPartsUrl(brand, number)]
DetailResolution(url) ==
    [kind |-> "detail", brand |-> <<>>, number |-> <<>>, url |-> url]

\* the loop over the result rows (lines 163-176): the first row, in document
\* order, that is not skipped and carries brand and number
RowPasses(row, wanted) ==
    /\ ~(row.code # NoEl /\ NormalizePcode(Text(row.code)) # wanted)
    /\ Truthy(row.imgBrand) /\ Truthy(row.imgNumber)
    /\ Strip(row.imgBrand) # <<>> /\ Strip(row.imgNumber) # <<>>

RECURSIVE FirstRowHit(_, _)
FirstRowHit(rows, wanted) ==
    IF rows = <<>> THEN NoResolution
    ELSE IF RowPasses(Head(rows), wanted)
         THEN PartsResolution(Strip(Head(rows).imgBrand), Strip(Head(rows).imgNumber))
         ELSE FirstRowHit(Tail(rows), wanted)

Or(a, b) == IF a # <<>> THEN a ELSE b

\* a classification that follows the link of the first row before it looks for
\* a direct hit
ExtractLinkFirst(pcode, html, currentUrl) ==
    LET wanted == NormalizePcode(pcode)
        brand == Or(Text(html.tBrand), Text(html.dBrand))
        number == Or(Text(html.tNumber), Text(html.dNumber))
        byRow == FirstRowHit(html.rows, wanted)
    IN  IF Truthy(html.link) THEN DetailResolution(UrlJoin(currentUrl, html.link))
        ELSE IF html.title /\ brand # <<>> /\ number # <<>>
        THEN PartsResolution(brand, number)
        ELSE byRow

\* a classification that looks at the result rows before the title block
ExtractRowFirst(pcode, html, currentUrl) ==
    LET wanted == NormalizePcode(pcode)
        brand == Or(Text(html.tBrand), Text(html.dBrand))
        number == Or(Text(html.tNumber), Text(html.dNumber))
        byRow == FirstRowHit(html.rows, wanted)
    IN  IF byRow.kind = "parts" THEN byRow
        ELSE IF html.title /\ brand # <<>> /\ number # <<>>
        THEN PartsResolution(brand, number)
        ELSE IF Truthy(html.link) THEN DetailResolution(UrlJoin(currentUrl, html.link))
        ELSE NoResolution

\* _extract_search_resolution
ExtractSearchResolution(pcode, html, currentUrl) ==
    LET wanted == NormalizePcode(pcode)
        brand == Or(Text(html.tBrand), Text(html.dBrand))
        number == Or(Text(html.tNumber), Text(html.dNumber))
        byRow == FirstRowHit(html.rows, wanted)
    IN  IF html.title /\ brand # <<>> /\ number # <<>>
        THEN PartsResolution(brand, number)
        ELSE IF byRow.kind = "parts" THEN byRow
        ELSE IF Truthy(html.link) THEN DetailResolution(UrlJoin(currentUrl, html.link))
        ELSE NoResolution

\* a detail read that takes the first brand of the document, title or not
DetailBrandDocWide(html) == Text(html.dBrand)

\* the brand and number read from the page a ListHit links to (lines 212-216)
DetailBrand(html) == IF html.title THEN Text(html.tBrand) ELSE Text(html.dBrand)
DetailNumber(html) == IF html.title THEN Text(html.tNumber) ELSE Text(html.dNumber)

\* ---------------------------------------------------------------- results
PyNone == <<"<None>">>
OrNone(s) == IF s # <<>> THEN s ELSE PyNone

NoError == [kind |-> "none", stage |-> "none"]
\* RuntimeError("Autorus: guest mode. ...") raised by _ensure_not_guest_or_raise
GuestError(stage) == [kind |-> "GuestMode", stage |-> stage]
\* playwright's TimeoutError, raised by page.goto
PWTimeout(stage) == [kind |-> "PWTimeout", stage |-> stage]

NoOffer == [warehouse |-> PyNone, qty |-> 0, price_rub |-> Zero, deadline |-> PyNone]

MkOffer(warehouse, qty, price, deadline) ==
    [warehouse |-> warehouse, qty |-> qty, price_rub |-> price, deadline |-> deadline]

NoResult ==
    [kind |-> "none", brand |-> <<>>, number |-> <<>>, url |-> <<>>,
     offer |-> NoOffer, err |-> "none", cause |-> NoError]

\* AutorusPartRef(brand, number, parts_url)
RefResult(brand, number, url) ==
    [NoResult EXCEPT !.kind = "ref", !.brand = brand, !.number = number, !.url = url]

\* the (brand, number, offer) tuple of _fetch_first_offer_from_parts
TupleResult(brand, number, offer) ==
    [NoResult EXCEPT !.kind = "tuple", !.brand = brand, !.number = number,
                     !.offer = offer]

\* an exception leaving the call: its kind and the error it was raised from
RaiseResult(err, cause) == [NoResult EXCEPT !.kind = "raise", !.err = err, !.cause = cause]

\* ------------------------------------------------------------------ state
VARIABLES
    pc,         \* where the caller or the running call stands
    sess,       \* the resources of the session: engine, browser, context, pages
    exitInfo,   \* how the scoped acquisition ended
    calls,      \* engine calls started in this acquisition
    op,         \* the public operation that is running, or ran last
    pcode,      \* the part code of the running resolution
    variants,   \* _variants_for_search(pcode)
    vi,         \* index of the variant being tried
    lastError,  \* last_error of _resolve_parts_ref_by_pcode
    raised,     \* every error the except clause of the loop has caught, in order
    page,       \* markup of the page the browser shows
    curUrl,     \* page.url
    navs,       \* addresses page.goto was called with, in this call
    saved,      \* names _save_debug wrote, in this call
    result,     \* what the last call returned or raised
    snap,       \* fetch_product_snapshot: its stage, its parts_url, its resolved
    nav,        \* since the last page.goto: has _sleep run, has the guest test run
    rows,       \* main: list_for_supplier_sync()
    rowIx,      \* main: index of the row the loop is at
    done,       \* main: done
    skipped,    \* main: skipped
    failed,     \* main: failed
    outcomes,   \* main: how each row the loop has passed ended, in order
    txt,        \* the text a static helper is given
    fn,         \* the static helper that was applied to txt, if any
    ret,        \* what that helper returned or raised
    limiter,    \* the _RateLimiter: its limit, the age of its window, _window_items
    acq,        \* the running acquire: where it stands and its items
    recent,     \* the admissions of the last 60 seconds, each with its age
    post,       \* OzonClient._post: where the call stands, its attempts, its outcome
    paging,     \* list_products_all: its cursor, what it sent and what it got
    push        \* push_prices_to_ozon / push_stocks_to_ozon and the OzonUpdater

vars == <<pc, sess, exitInfo, calls, op, pcode, variants, vi, lastError, raised,
          page, curUrl, navs, saved, result, snap, nav,
          rows, rowIx, done, skipped, failed, outcomes, txt, fn, ret,
          limiter, acq, recent, post, paging, push>>

sessVars == <<sess, exitInfo>>
resolveVars == <<pcode, variants, vi, lastError, raised>>
batchVars == <<rows, rowIx, done, skipped, failed, outcomes>>
textVars == <<txt, fn, ret>>
limiterVars == <<limiter, acq, recent>>
\* what belongs to the Ozon side of the program
clientVars == <<post, paging>>
ozonVars == <<limiterVars, clientVars, push>>
\* what no method of the session touches
outerVars == <<batchVars, textVars, ozonVars>>

CodeChars == {"A", "-", " "}
PCodes == SeqsUpTo(CodeChars, MaxCodeLen)

\* addresses a caller passes to get_first_offer_from_parts
PartsUrls == {BuildPartsUrl(Brand3RG, Num31311), BASE \o <<"/parts/x">>}

NoSession == [engine |-> "none", browser |-> "none", context |-> "none", pages |-> 0]
NoExit == [by |-> "none", raisedAt |-> "none"]

\* no fetch_product_snapshot is running and none has run
NoSnap == [at |-> "none", parts_url |-> PyNone, resolved |-> NoResult]

\* no page.goto was made yet
NoNav == [paced |-> TRUE, checked |-> FALSE]

\* no static helper is being looked at on its own
NoText ==
    /\ txt = <<>>
    /\ fn = "none"
    /\ ret = Returned(0)

\* no _RateLimiter has been built
NoLimiter ==
    /\ limiter = [max_items_per_minute |-> 0, window_age |-> 0, window_items |-> 0]
    /\ acq = [at |-> "idle", items |-> 0, last |-> "none"]
    /\ recent = <<>>

\* _post is not running
NoPost == post = [at |-> "idle", log |-> <<>>, out |-> "none"]

\* list_products_all is not running
NoPaging ==
    paging = [at |-> "idle", include_archived |-> FALSE, last_id |-> <<>>,
              sent |-> <<>>, got |-> <<>>, out |-> <<>>]

\* no push is running and no OzonUpdater exists
NoPush ==
    push = [at |-> "idle", kind |-> "none", dry_run |-> FALSE, limit |-> 0,
            items |-> 0, batches |-> <<>>, ix |-> 1, bad |-> 0,
            client |-> "none", passed |-> <<>>, requests |-> <<>>,
            exit |-> "none"]

\* nothing of the Ozon side is running
NoOzon == NoLimiter /\ NoPost /\ NoPaging /\ NoPush

\* main has not reached its supplier loop
NoBatch ==
    /\ rows = <<>>
    /\ rowIx = 1
    /\ done = 0
    /\ skipped = 0
    /\ failed = 0
    /\ outcomes = <<>>

Init ==
    /\ pc = "out"
    /\ sess = NoSession
    /\ exitInfo = NoExit
    /\ calls = 0
    /\ op = "none"
    /\ pcode = <<>>
    /\ variants = <<>>
    /\ vi = 1
    /\ lastError = NoError
    /\ raised = <<>>
    /\ page = BlankPage
    /\ curUrl = <<"about:blank">>
    /\ navs = <<>>
    /\ saved = <<>>
    /\ result = NoResult
    /\ snap = NoSnap
    /\ nav = NoNav
    /\ NoBatch
    /\ NoText
    /\ NoOzon

\* --------------------------------------------------------------- lifecycle
\* __enter__: the state file is checked, then the engine, the browser, the
\* context and the page are started in this order; any of the steps can raise
EnterSteps == <<"state_file", "engine", "browser", "context", "page">>

Enter ==
    /\ pc = "out"
    /\ \E failAt \in 1..(Len(EnterSteps) + 1) :
         /\ sess' = [engine |-> IF failAt > 2 THEN "running" ELSE "none",
                     browser |-> IF failAt > 3 THEN "open" ELSE "none",
                     context |-> IF failAt > 4 THEN "open" ELSE "none",
                     pages |-> IF failAt > 5 THEN 1 ELSE 0]
         /\ pc' = IF failAt > Len(EnterSteps) THEN "idle" ELSE "enter_failed"
    /\ UNCHANGED <<exitInfo, calls, op, resolveVars, page, curUrl, navs, saved, result>>
    /\ UNCHANGED <<outerVars, snap, nav>>

\* how the with-body is left: by return, or by the exception of the last call
LeaveKinds ==
    {"return"} \cup
    (IF result.kind = "raise"
     THEN {IF result.err = "GuestMode" THEN "access_denied" ELSE "exception"}
     ELSE {})

\* __exit__: context.close(), browser.close(), p.stop(), each guarded only by
\* "if present"; a close that raises ends __exit__ there.  Closing the context
\* closes its pages.  Whether the resource whose close raised ends up closed is
\* not known.  The frames of the with-body are gone once it is left.
ExitFrom(s, raisedAt, closedAnyway) ==
    LET ctxDone == raisedAt # "context" \/ closedAnyway
        brReached == raisedAt # "context"
        brDone == brReached /\ (raisedAt # "browser" \/ closedAnyway)
        enReached == raisedAt \notin {"context", "browser"}
        enDone == enReached /\ (raisedAt # "engine" \/ closedAnyway)
    IN  [engine |-> IF s.engine = "running" /\ enDone THEN "stopped" ELSE s.engine,
         browser |-> IF s.browser = "open" /\ brDone THEN "closed" ELSE s.browser,
         context |-> IF s.context = "open" /\ ctxDone THEN "closed" ELSE s.context,
         pages |-> IF s.context = "open" /\ ctxDone THEN 0 ELSE s.pages]

Exit ==
    /\ pc = "idle"
    /\ snap.at = "none"
    /\ \E by \in LeaveKinds, raisedAt \in {"none", "context", "browser", "engine"},
          closedAnyway \in BOOLEAN :
         /\ (raisedAt = "none" => closedAnyway)
         /\ sess' = ExitFrom(sess, raisedAt, closedAnyway)
         /\ exitInfo' = [by |-> by, raisedAt |-> raisedAt]
    /\ pc' = "exited"
    /\ pcode' = <<>> /\ variants' = <<>> /\ vi' = 1 /\ lastError' = NoError
    /\ raised' = <<>>
    /\ navs' = <<>> /\ saved' = <<>> /\ result' = NoResult
    /\ snap' = NoSnap
    /\ IF sess'.pages = 0
       THEN page' = BlankPage /\ curUrl' = <<"about:blank">> /\ nav' = NoNav
       ELSE UNCHANGED <<page, curUrl, nav>>
    /\ UNCHANGED <<calls, op, outerVars>>

\* -------------------------------------------------------------- resolution
\* the variant the loop of _resolve_parts_ref_by_pcode is at
One == variants[vi]

\* the loop moves to its next variant, or leaves for the final failure
AfterVariant == IF vi + 1 <= Len(variants) THEN "r_goto" ELSE "r_final"

\* a guest-mode test that never finds the phrase
GuestNeverSeen(html) == FALSE

\* _is_guest_mode: the body text holds the guest-mode phrase
IsGuestMode(html) == html.guest

\* search_pcode(pcode): _resolve_parts_ref_by_pcode starts
CallResolve ==
    /\ pc = "idle"
    /\ snap.at = "none"
    /\ calls < MaxCalls
    /\ \E code \in PCodes :
         /\ pcode' = code
         /\ variants' = VariantsForSearch(code)
         /\ pc' = IF VariantsForSearch(code) # <<>> THEN "r_goto" ELSE "r_final"
    /\ vi' = 1
    /\ lastError' = NoError
    /\ raised' = <<>>
    /\ calls' = calls + 1
    /\ op' = "resolve"
    /\ navs' = <<>>
    /\ saved' = <<>>
    /\ result' = NoResult
    /\ snap' = NoSnap
    /\ UNCHANGED <<sessVars, outerVars, nav, page, curUrl>>

\* an except clause that keeps the first error instead of the last
CatchKeepsFirst(e) ==
    /\ lastError' = (IF lastError = NoError THEN e ELSE lastError)
    /\ raised' = Append(raised, e)
    /\ vi' = vi + 1
    /\ pc' = AfterVariant
    /\ UNCHANGED <<pcode, variants, result>>

\* the except clause of the loop (lines 223-224): the error is remembered and
\* the loop goes on
CatchInLoop(e) ==
    /\ lastError' = e
    /\ raised' = Append(raised, e)
    /\ vi' = vi + 1
    /\ pc' = AfterVariant
    /\ UNCHANGED <<pcode, variants, result>>

\* page.goto(search_url) (line 191)
RSearchGoto ==
    /\ pc = "r_goto"
    /\ nav' = [paced |-> FALSE, checked |-> FALSE]
    /\ navs' = Append(navs, SearchUrl(One))
    /\ \/ \E p \in SearchPages :
            /\ page' = p
            /\ curUrl' = SearchUrl(One)
            /\ pc' = "r_sleep"
            /\ UNCHANGED <<resolveVars, result>>
       \/ /\ page' = BlankPage
          /\ curUrl' = SearchUrl(One)
          /\ CatchInLoop(PWTimeout("search"))
    /\ UNCHANGED <<sessVars, outerVars, snap, calls, op, saved>>

\* a loop body that classifies the page right after the delay
RSearchSleepThenClassify ==
    /\ pc = "r_sleep"
    /\ nav' = [nav EXCEPT !.paced = TRUE]
    /\ pc' = "r_classify"
    /\ UNCHANGED <<sessVars, outerVars, snap, calls, op, resolveVars, page, curUrl, navs, saved, result>>

\* self._sleep() (line 192)
RSearchSleep ==
    /\ pc = "r_sleep"
    /\ nav' = [nav EXCEPT !.paced = TRUE]
    /\ pc' = "r_guest"
    /\ UNCHANGED <<sessVars, outerVars, snap, calls, op, resolveVars, page, curUrl, navs, saved, result>>

\* _ensure_not_guest_or_raise("search") (line 193)
RSearchGuard ==
    /\ pc = "r_guest"
    /\ nav' = [nav EXCEPT !.checked = TRUE]
    /\ IF IsGuestMode(page)
       THEN /\ saved' = Append(saved, "search_guest_mode.html")
            /\ CatchInLoop(GuestError("search"))
       ELSE /\ pc' = "r_classify"
            /\ UNCHANGED <<resolveVars, saved, result>>
    /\ UNCHANGED <<sessVars, outerVars, snap, calls, op, page, curUrl, navs>>

\* a classification step that, like search_pcode of the older client, saves
\* the page when it finds nothing on it
RClassifySavesNoMatch ==
    /\ pc = "r_classify"
    /\ LET resolved == ExtractSearchResolution(One, page, curUrl)
       IN  CASE resolved.kind = "none" ->
                  /\ saved' = Append(saved, "search_unexpected.html")
                  /\ vi' = vi + 1
                  /\ pc' = AfterVariant
                  /\ UNCHANGED <<pcode, variants, lastError, raised, result>>
             [] resolved.kind = "parts" ->
                  /\ result' = RefResult(resolved.brand, resolved.number, resolved.url)
                  /\ pc' = "idle"
                  /\ UNCHANGED <<resolveVars, saved>>
             [] OTHER ->
                  /\ pc' = "d_goto"
                  /\ UNCHANGED <<resolveVars, result, saved>>
    /\ UNCHANGED <<sessVars, outerVars, snap, nav, calls, op, page, curUrl, navs>>

\* lines 195-206: the search page is classified
RClassify ==
    /\ pc = "r_classify"
    /\ LET resolved == ExtractSearchResolution(One, page, curUrl)
       IN  CASE resolved.kind = "none" ->
                  /\ vi' = vi + 1
                  /\ pc' = AfterVariant
                  /\ UNCHANGED <<pcode, variants, lastError, raised, result>>
             [] resolved.kind = "parts" ->
                  /\ result' = RefResult(resolved.brand, resolved.number, resolved.url)
                  /\ pc' = "idle"
                  /\ UNCHANGED resolveVars
             [] OTHER ->
                  /\ pc' = "d_goto"
                  /\ UNCHANGED <<resolveVars, result>>
    /\ UNCHANGED <<sessVars, outerVars, snap, nav, calls, op, page, curUrl, navs, saved>>

\* detail_url of line 206, recomputed from the search page still shown
DetailUrl == ExtractSearchResolution(One, page, curUrl).url

\* page.goto(detail_url) (line 208)
RDetailGoto ==
    /\ pc = "d_goto"
    /\ nav' = [paced |-> FALSE, checked |-> FALSE]
    /\ navs' = Append(navs, DetailUrl)
    /\ curUrl' = DetailUrl
    /\ \/ \E p \in SearchPages :
            /\ p.rows = <<>> /\ p.link = NoEl
            /\ page' = p
            /\ pc' = "d_sleep"
            /\ UNCHANGED <<resolveVars, result>>
       \/ /\ page' = BlankPage
          /\ CatchInLoop(PWTimeout("search_detail"))
    /\ UNCHANGED <<sessVars, outerVars, snap, calls, op, saved>>

\* self._sleep() (line 209)
RDetailSleep ==
    /\ pc = "d_sleep"
    /\ nav' = [nav EXCEPT !.paced = TRUE]
    /\ pc' = "d_guest"
    /\ UNCHANGED <<sessVars, outerVars, snap, calls, op, resolveVars, page, curUrl, navs, saved, result>>

\* _ensure_not_guest_or_raise("search_detail") (line 210)
RDetailGuard ==
    /\ pc = "d_guest"
    /\ nav' = [nav EXCEPT !.checked = TRUE]
    /\ IF IsGuestMode(page)
       THEN /\ saved' = Append(saved, "search_detail_guest_mode.html")
            /\ CatchInLoop(GuestError("search_detail"))
       ELSE /\ pc' = "d_extract"
            /\ UNCHANGED <<resolveVars, saved, result>>
    /\ UNCHANGED <<sessVars, outerVars, snap, calls, op, page, curUrl, navs>>

\* lines 212-222: brand and number are read from the detail page
RDetailExtract ==
    /\ pc = "d_extract"
    /\ LET brand == DetailBrand(page)
           number == DetailNumber(page)
       IN  IF brand # <<>> /\ number # <<>>
           THEN /\ result' = RefResult(brand, number, BuildPartsUrl(brand, number))
                /\ pc' = "idle"
                /\ UNCHANGED resolveVars
           ELSE /\ vi' = vi + 1
                /\ pc' = AfterVariant
                /\ UNCHANGED <<pcode, variants, lastError, raised, result>>
    /\ UNCHANGED <<sessVars, outerVars, snap, nav, calls, op, page, curUrl, navs, saved>>

\* lines 226-229: the loop is over without a reference
RFinal ==
    /\ pc = "r_final"
    /\ saved' = Append(saved, "search_unresolved.html")
    /\ result' = RaiseResult("Unresolved", lastError)
    /\ pc' = "idle"
    /\ UNCHANGED <<sessVars, outerVars, snap, nav, calls, op, resolveVars, page, curUrl, navs>>

Resolve ==
    \/ RSearchGoto \/ RSearchSleep \/ RSearchGuard \/ RClassify
    \/ RDetailGoto \/ RDetailSleep \/ RDetailGuard \/ RDetailExtract \/ RFinal

\* --------------------------------------------------------- offer extraction
\* the offer lines 253-258 build from one availability block; _parse_int can
\* raise, and then no offer is built
OfferOf(block) ==
    LET qty == ParseInt(Text(block.avail))
    IN  IF qty.ok
        THEN Returned(MkOffer(Text(block.route), qty.val,
                              ParsePrice(Text(block.price)), Text(block.deadline)))
        ELSE Raised(qty.exc)

\* a selection that takes the last block instead of the first
SelectLastBlock(blocks) == blocks[Len(blocks)]

\* soup.select_one(".distrInfoBlockWrapper") on a page that has such a block
SelectOneBlock(blocks) == Head(blocks)

\* a wait that can succeed on any page
CanAppearAlways(html) == TRUE

\* wait_for_selector can succeed only if one of the awaited elements exists
CanAppear(html) == html.blocks # <<>> \/ html.dBrand # NoEl \/ html.dNumber # NoEl

\* the call leaves _fetch_first_offer_from_parts with r
FetchEnds(r) ==
    /\ result' = r
    /\ pc' = "idle"

\* get_first_offer_from_parts(parts_url): _fetch_first_offer_from_parts starts
CallFetch ==
    /\ pc = "idle"
    /\ snap.at = "none"
    /\ calls < MaxCalls
    /\ \E url \in PartsUrls : curUrl' = url
    /\ pc' = "f_goto"
    /\ calls' = calls + 1
    /\ op' = "fetch"
    /\ navs' = <<>>
    /\ saved' = <<>>
    /\ result' = NoResult
    /\ pcode' = <<>> /\ variants' = <<>> /\ vi' = 1 /\ lastError' = NoError
    /\ raised' = <<>>
    /\ snap' = NoSnap
    /\ UNCHANGED <<sessVars, outerVars, nav, page>>

\* page.goto(parts_url) (line 233); curUrl holds parts_url
FGoto ==
    /\ pc = "f_goto"
    /\ nav' = [paced |-> FALSE, checked |-> FALSE]
    /\ navs' = Append(navs, curUrl)
    /\ \/ \E p \in PartsPages :
            /\ page' = p
            /\ pc' = "f_sleep"
            /\ UNCHANGED result
       \/ /\ page' = BlankPage
          /\ FetchEnds(RaiseResult("PWTimeout", NoError))
    /\ UNCHANGED <<sessVars, outerVars, snap, calls, op, resolveVars, curUrl, saved>>

\* self._sleep() (line 234)
FSleep ==
    /\ pc = "f_sleep"
    /\ nav' = [nav EXCEPT !.paced = TRUE]
    /\ pc' = "f_guest"
    /\ UNCHANGED <<sessVars, outerVars, snap, calls, op, resolveVars, page, curUrl, navs, saved, result>>

\* _ensure_not_guest_or_raise("parts") (line 235)
FGuard ==
    /\ pc = "f_guest"
    /\ nav' = [nav EXCEPT !.checked = TRUE]
    /\ IF IsGuestMode(page)
       THEN /\ saved' = Append(saved, "parts_guest_mode.html")
            /\ FetchEnds(RaiseResult("GuestMode", NoError))
       ELSE /\ pc' = "f_wait"
            /\ UNCHANGED <<saved, result>>
    /\ UNCHANGED <<sessVars, outerVars, snap, calls, op, resolveVars, page, curUrl, navs>>

\* wait_for_selector (lines 237-241)
FWait ==
    /\ pc = "f_wait"
    /\ \/ /\ CanAppear(page)
          /\ pc' = "f_extract"
          /\ UNCHANGED <<saved, result>>
       \/ /\ saved' = Append(saved, "parts_timeout.html")
          /\ FetchEnds(RaiseResult("PartsTimeout", PWTimeout("parts")))
    /\ UNCHANGED <<sessVars, outerVars, snap, nav, calls, op, resolveVars, page, curUrl, navs>>

\* an extraction that, like get_parts_page of the older client, raises when
\* the page shows no brand or no number
FExtractRequiresBrand ==
    /\ pc = "f_extract"
    /\ LET brand == OrNone(Text(page.dBrand))
           number == OrNone(Text(page.dNumber))
       IN  IF brand = PyNone \/ number = PyNone
           THEN /\ saved' = Append(saved, "parts_unexpected.html")
                /\ FetchEnds(RaiseResult("Unexpected", NoError))
           ELSE IF page.blocks = <<>>
           THEN /\ saved' = Append(saved, "parts_no_offers.html")
                /\ FetchEnds(TupleResult(brand, number, NoOffer))
           ELSE LET offer == OfferOf(SelectOneBlock(page.blocks))
                IN  /\ FetchEnds(IF offer.ok THEN TupleResult(brand, number, offer.val)
                                 ELSE RaiseResult(offer.exc, NoError))
                    /\ UNCHANGED saved
    /\ UNCHANGED <<sessVars, outerVars, snap, nav, calls, op, resolveVars, page, curUrl, navs>>

\* lines 243-259: brand, number and the first block are read
FExtract ==
    /\ pc = "f_extract"
    /\ LET brand == OrNone(Text(page.dBrand))
           number == OrNone(Text(page.dNumber))
       IN  IF page.blocks = <<>>
           THEN /\ saved' = Append(saved, "parts_no_offers.html")
                /\ FetchEnds(TupleResult(brand, number, NoOffer))
           ELSE LET offer == OfferOf(SelectOneBlock(page.blocks))
                IN  /\ FetchEnds(IF offer.ok THEN TupleResult(brand, number, offer.val)
                                 ELSE RaiseResult(offer.exc, NoError))
                    /\ UNCHANGED saved
    /\ UNCHANGED <<sessVars, outerVars, snap, nav, calls, op, resolveVars, page, curUrl, navs>>

Fetch == FGoto \/ FSleep \/ FGuard \/ FWait \/ FExtract

\* ------------------------------------------------------ the full cycle
\* SupplierProductSnapshot(pcode, brand, number, parts_url, offer); its pcode
\* is the variable pcode
SnapshotResult(brand, number, url, offer) ==
    [NoResult EXCEPT !.kind = "snapshot", !.brand = brand, !.number = number,
                     !.url = url, !.offer = offer]

\* addresses a caller passes as parts_url: none, blank ones, and an address
\* with and without whitespace around it
SnapUrl == BASE \o <<"/parts/x">>
GivenUrls == {PyNone, <<" ">>, SnapUrl, <<" ">> \o SnapUrl \o <<" ">>}

\* part codes a caller passes to fetch_product_snapshot: one with a separator
\* and one without
SnapCodes == {<<"A", "-">>, <<"A">>}

\* an existing_parts that is not stripped
ExistingPartsRaw(parts_url) == IF parts_url = PyNone THEN <<>> ELSE parts_url

\* existing_parts of line 263; <<>> stands for its None
ExistingParts(parts_url) == Strip(IF parts_url = PyNone THEN <<>> ELSE parts_url)

\* the snapshot of lines 276-282: resolved.brand or brand, resolved.number or
\* number, resolved.parts_url
SnapshotOfResolved(resolved, brand, number, offer) ==
    SnapshotResult(Or(resolved.brand, brand), Or(resolved.number, number),
                   resolved.url, offer)

\* fetch_product_snapshot(pcode, parts_url) starts (lines 262-264, 274)
CallSnapshot ==
    /\ pc = "idle"
    /\ snap.at = "none"
    /\ calls < MaxCalls
    /\ \E code \in SnapCodes, given \in GivenUrls :
         /\ pcode' = code
         /\ IF ExistingParts(given) # <<>>
            THEN /\ snap' = [at |-> "fetching", parts_url |-> given, resolved |-> NoResult]
                 /\ curUrl' = ExistingParts(given)
                 /\ variants' = <<>>
                 /\ pc' = "f_goto"
            ELSE /\ snap' = [at |-> "resolving", parts_url |-> given, resolved |-> NoResult]
                 /\ variants' = VariantsForSearch(code)
                 /\ pc' = IF VariantsForSearch(code) # <<>> THEN "r_goto" ELSE "r_final"
                 /\ UNCHANGED curUrl
    /\ vi' = 1
    /\ lastError' = NoError
    /\ raised' = <<>>
    /\ calls' = calls + 1
    /\ op' = "snapshot"
    /\ navs' = <<>>
    /\ saved' = <<>>
    /\ result' = NoResult
    /\ UNCHANGED <<sessVars, outerVars, nav, page>>

\* _resolve_parts_ref_by_pcode has returned to line 274 or raised through it:
\* with a reference _fetch_first_offer_from_parts(resolved.parts_url) starts
SnapshotResolved ==
    /\ pc = "idle"
    /\ snap.at = "resolving"
    /\ IF result.kind = "ref"
       THEN /\ snap' = [snap EXCEPT !.at = "fetching", !.resolved = result]
            /\ curUrl' = result.url
            /\ pc' = "f_goto"
            /\ variants' = <<>> /\ vi' = 1 /\ lastError' = NoError /\ raised' = <<>>
            /\ navs' = <<>>
            /\ saved' = <<>>
            /\ result' = NoResult
            /\ UNCHANGED pcode
       ELSE /\ snap' = [snap EXCEPT !.at = "none"]
            /\ UNCHANGED <<pc, resolveVars, curUrl, navs, saved, result>>
    /\ UNCHANGED <<sessVars, outerVars, nav, calls, op, page>>

\* _fetch_first_offer_from_parts has returned to line 265 or 275, or raised
\* through it: the snapshot of lines 266-272 or 276-282 is built
SnapshotFetched ==
    /\ pc = "idle"
    /\ snap.at = "fetching"
    /\ snap' = [snap EXCEPT !.at = "none"]
    /\ result' =
          IF result.kind # "tuple" THEN result
          ELSE IF snap.resolved.kind = "ref"
          THEN SnapshotOfResolved(snap.resolved, result.brand, result.number, result.offer)
          ELSE SnapshotResult(result.brand, result.number,
                              ExistingParts(snap.parts_url), result.offer)
    /\ UNCHANGED <<sessVars, outerVars, nav, calls, op, pc, resolveVars, page, curUrl,
                   navs, saved>>

Snapshot == CallSnapshot \/ SnapshotResolved \/ SnapshotFetched

\* ---------------------------------------------------------- ensure_logged_in
\* ensure_logged_in returned without logging in; the login of
\* _login_via_modal_and_save_state went through and rewrote the state file
OkResult == [NoResult EXCEPT !.kind = "ok"]
LoggedInResult == [NoResult EXCEPT !.kind = "logged_in"]

\* pages the navigation to BASE/ can land on
HomePages == {PartsPage(FALSE, NoEl, NoEl, <<>>), PartsPage(TRUE, NoEl, NoEl, <<>>)}
HomeUrl == BASE \o <<"/">>

\* ensure_logged_in(allow_autologin) starts
CallEnsure ==
    /\ pc = "idle"
    /\ snap.at = "none"
    /\ calls < MaxCalls
    /\ pc' = "e_goto"
    /\ calls' = calls + 1
    /\ op' = "ensure"
    /\ navs' = <<>>
    /\ saved' = <<>>
    /\ result' = NoResult
    /\ pcode' = <<>> /\ variants' = <<>> /\ vi' = 1 /\ lastError' = NoError
    /\ raised' = <<>>
    /\ snap' = NoSnap
    /\ UNCHANGED <<sessVars, outerVars, nav, page, curUrl>>

\* page.goto(BASE/) of line 311 (at e_goto) and of line 332 (at l_goto)
HomeGoto(at, next) ==
    /\ pc = at
    /\ nav' = [paced |-> FALSE, checked |-> FALSE]
    /\ navs' = Append(navs, HomeUrl)
    /\ curUrl' = HomeUrl
    /\ \/ \E p \in HomePages :
            /\ page' = p
            /\ pc' = next
            /\ UNCHANGED result
       \/ /\ page' = BlankPage
          /\ FetchEnds(RaiseResult("PWTimeout", NoError))
    /\ UNCHANGED <<sessVars, outerVars, snap, calls, op, resolveVars, saved>>

EGoto == HomeGoto("e_goto", "e_sleep")

\* self._sleep() (line 312)
ESleep ==
    /\ pc = "e_sleep"
    /\ nav' = [nav EXCEPT !.paced = TRUE]
    /\ pc' = "e_check"
    /\ UNCHANGED <<sessVars, outerVars, snap, calls, op, resolveVars, page, curUrl,
                   navs, saved, result>>

\* lines 314-329: the guest test; in guest mode the argument allow_autologin,
\* read here for the first time, and the two environment variables decide
ECheck ==
    /\ pc = "e_check"
    /\ nav' = [nav EXCEPT !.checked = TRUE]
    /\ IF ~IsGuestMode(page)
       THEN /\ FetchEnds(OkResult)
            /\ UNCHANGED saved
       ELSE \E allow_autologin \in BOOLEAN, credentials \in BOOLEAN :
              IF ~allow_autologin
              THEN /\ saved' = Append(saved, "guest_mode.html")
                   /\ FetchEnds(RaiseResult("GuestMode", NoError))
              ELSE IF ~credentials
              THEN /\ FetchEnds(RaiseResult("NoCredentials", NoError))
                   /\ UNCHANGED saved
              ELSE /\ pc' = "l_goto"
                   /\ UNCHANGED <<saved, result>>
    /\ UNCHANGED <<sessVars, outerVars, snap, calls, op, resolveVars, page, curUrl, navs>>

LGoto == HomeGoto("l_goto", "l_sleep")

\* self._sleep() (line 333)
LSleep ==
    /\ pc = "l_sleep"
    /\ nav' = [nav EXCEPT !.paced = TRUE]
    /\ pc' = "l_modal"
    /\ UNCHANGED <<sessVars, outerVars, snap, calls, op, resolveVars, page, curUrl,
                   navs, saved, result>>

\* a login whose form opens the site in a second page
LModalOpensTab ==
    /\ pc = "l_modal"
    /\ \/ /\ FetchEnds(RaiseResult("NoLoginButton", NoError))
          /\ UNCHANGED <<page, sess>>
       \/ /\ FetchEnds(RaiseResult("NoLoginModal", PWTimeout("login")))
          /\ UNCHANGED <<page, sess>>
       \/ /\ FetchEnds(LoggedInResult)
          /\ sess' = [sess EXCEPT !.pages = @ + 1]
          /\ \E p \in HomePages : page' = p
    /\ UNCHANGED <<exitInfo, outerVars, snap, nav, calls, op, resolveVars, curUrl,
                   navs, saved>>

\* lines 335-353: the login button, the modal, the form and storage_state;
\* the page the site shows after the form is sent is one of its home pages
LModal ==
    /\ pc = "l_modal"
    /\ \/ /\ FetchEnds(RaiseResult("NoLoginButton", NoError))
          /\ UNCHANGED page
       \/ /\ FetchEnds(RaiseResult("NoLoginModal", PWTimeout("login")))
          /\ UNCHANGED page
       \/ /\ FetchEnds(LoggedInResult)
          /\ \E p \in HomePages : page' = p
    /\ UNCHANGED <<sessVars, outerVars, snap, nav, calls, op, resolveVars, curUrl,
                   navs, saved>>

Ensure == CallEnsure \/ EGoto \/ ESleep \/ ECheck \/ LGoto \/ LSleep \/ LModal

Next ==
    \/ Enter \/ Exit \/ CallResolve \/ Resolve \/ CallFetch \/ Fetch \/ Snapshot
    \/ Ensure
Spec == Init /\ [][Next]_vars

\* ------------------------------------------------- the supplier loop of main
\* a row of list_for_supplier_sync(), as far as the loop reads it: are the
\* four dimensions set, is commission_fbs_percent set, and offer_id
MkSyncRow(dims, commission, offer_id) ==
    [dims |-> dims, commission |-> commission, offer_id |-> offer_id]

SyncRows ==
    {MkSyncRow(TRUE, TRUE, <<"A">>), MkSyncRow(FALSE, TRUE, <<"A">>),
     MkSyncRow(TRUE, FALSE, <<"A">>), MkSyncRow(TRUE, TRUE, <<" ">>),
     MkSyncRow(TRUE, TRUE, PyNone)}

\* the state of the session engine while main runs is left out of the loop
engineVars ==
    <<sess, exitInfo, calls, op, pcode, variants, vi, lastError, raised,
      page, curUrl, navs, saved, result, snap, nav>>

InitBatch ==
    /\ pc = "b_start"
    /\ sess = NoSession
    /\ exitInfo = NoExit
    /\ calls = 0
    /\ op = "none"
    /\ pcode = <<>>
    /\ variants = <<>>
    /\ vi = 1
    /\ lastError = NoError
    /\ raised = <<>>
    /\ page = BlankPage
    /\ curUrl = <<"about:blank">>
    /\ navs = <<>>
    /\ saved = <<>>
    /\ result = NoResult
    /\ snap = NoSnap
    /\ nav = NoNav
    /\ rows \in SeqsUpTo(SyncRows, MaxRows)
    /\ rowIx = 1
    /\ done = 0
    /\ skipped = 0
    /\ failed = 0
    /\ outcomes = <<>>
    /\ NoText
    /\ NoOzon

\* lines 78-96: the profile directory is checked, the session is acquired and
\* the health-check navigation is made; each of them can raise, and then main
\* ends before its loop
BatchOpen ==
    /\ pc = "b_start"
    /\ \E opened \in BOOLEAN : pc' = IF opened THEN "b_loop" ELSE "b_failed"
    /\ UNCHANGED <<engineVars, textVars, batchVars, ozonVars>>

\* the filters of lines 100-110
PassesFilters(r) ==
    /\ r.dims
    /\ r.commission
    /\ Strip(IF r.offer_id = PyNone THEN <<>> ELSE r.offer_id) # <<>>

\* a loop that passes a row without counting it
RowEndsUncounted(how, counter) ==
    /\ outcomes' = Append(outcomes, how)
    /\ rowIx' = rowIx + 1
    /\ UNCHANGED <<done, skipped, failed, pc, rows, engineVars, textVars, ozonVars>>

\* the loop passes a row: skipped += 1, done += 1 or failed += 1
RowEnds(how, counter) ==
    /\ outcomes' = Append(outcomes, how)
    /\ rowIx' = rowIx + 1
    /\ done' = done + (IF counter = "done" THEN 1 ELSE 0)
    /\ skipped' = skipped + (IF counter = "skipped" THEN 1 ELSE 0)
    /\ failed' = failed + (IF counter = "failed" THEN 1 ELSE 0)
    /\ UNCHANGED <<pc, rows, engineVars, textVars, ozonVars>>

\* lines 100-110: a row that fails a filter is skipped
BatchFiltered ==
    /\ pc = "b_loop"
    /\ rowIx <= Len(rows)
    /\ ~PassesFilters(rows[rowIx])
    /\ RowEnds("filtered", "skipped")

\* how fetch_product_snapshot can end: with a snapshot, with or without offer,
\* or with one of the errors the engine raises
SnapshotErrors == {"GuestMode", "Unresolved", "PartsTimeout", "PWTimeout"}
SnapshotOutcomes == {"offer", "no_offer"} \cup SnapshotErrors

\* a loop without its except clause: the error of an item ends the run
ExceptEndsLoop(e) ==
    /\ outcomes' = Append(outcomes, e)
    /\ failed' = failed + 1
    /\ pc' = "b_failed"
    /\ UNCHANGED <<rowIx, done, skipped, rows, engineVars, textVars, ozonVars>>

\* except Exception (lines 157-164): failed += 1, the error is logged and the
\* loop goes on
ExceptInLoop(e) == RowEnds(e, "failed")

\* lines 107-164: a row that passes the filters is processed
BatchItem ==
    /\ pc = "b_loop"
    /\ rowIx <= Len(rows)
    /\ PassesFilters(rows[rowIx])
    /\ \E out \in SnapshotOutcomes :
         CASE out = "no_offer" -> RowEnds("no_offer", "skipped")
           [] out = "offer" ->
                \E priced \in BOOLEAN :
                    IF priced THEN RowEnds("done", "done")
                    ELSE ExceptInLoop("PricingError")
           [] OTHER -> ExceptInLoop(out)

\* line 166: the loop is over
BatchEnd ==
    /\ pc = "b_loop"
    /\ rowIx > Len(rows)
    /\ pc' = "b_done"
    /\ UNCHANGED <<engineVars, textVars, batchVars, ozonVars>>

NextBatch == BatchOpen \/ BatchFiltered \/ BatchItem \/ BatchEnd
SpecBatch == InitBatch /\ [][NextBatch]_vars

\* ------------------------------------------------------ the static helpers
\* texts the helpers are given: every short text over digits, separators, a
\* sign, a letter and a digit character that is not decimal, and a quantity
\* and a price as the supplier writes them
TextChars == {"1", "0", " ", ",", ".", "-", "a", "^2"}
QtyText == <<"1", " ", "2", "0", "0", " ", "a">>
PriceText == <<"1", " ", "2", "3", "4", ",", "5", "0", " ", "$">>
Texts == SeqsUpTo(TextChars, MaxTextLen) \cup {QtyText, PriceText}

InitText ==
    /\ pc = "t_start"
    /\ sess = NoSession
    /\ exitInfo = NoExit
    /\ calls = 0
    /\ op = "none"
    /\ pcode = <<>>
    /\ variants = <<>>
    /\ vi = 1
    /\ lastError = NoError
    /\ raised = <<>>
    /\ page = BlankPage
    /\ curUrl = <<"about:blank">>
    /\ navs = <<>>
    /\ saved = <<>>
    /\ result = NoResult
    /\ snap = NoSnap
    /\ nav = NoNav
    /\ NoBatch
    /\ txt \in Texts
    /\ fn = "none"
    /\ ret = Returned(0)
    /\ NoOzon

\* a helper is applied to txt
Apply(name, r) ==
    /\ pc = "t_start"
    /\ fn = "none"
    /\ fn' = name
    /\ ret' = r
    /\ UNCHANGED <<pc, txt, engineVars, batchVars, ozonVars>>

ApplyParseInt == Apply("_parse_int", ParseInt(txt))
ApplyParsePrice == Apply("_parse_price", Returned(ParsePrice(txt)))
ApplyNormalize == Apply("_normalize_pcode", Returned(NormalizePcode(txt)))

\* _normalize_pcode is applied to what it returned
ApplyNormalizeAgain ==
    /\ pc = "t_start"
    /\ fn = "_normalize_pcode"
    /\ fn' = "_normalize_pcode twice"
    /\ ret' = Returned(NormalizePcode(ret.val))
    /\ UNCHANGED <<pc, txt, engineVars, batchVars, ozonVars>>

NextText == ApplyParseInt \/ ApplyParsePrice \/ ApplyNormalize \/ ApplyNormalizeAgain
SpecText == InitText /\ [][NextText]_vars

\* --------------------------------------------------------- the rate limiter
\* the session engine, the supplier loop and the static helpers are not running
RestIdle ==
    /\ sess = NoSession
    /\ exitInfo = NoExit
    /\ calls = 0
    /\ op = "none"
    /\ pcode = <<>>
    /\ variants = <<>>
    /\ vi = 1
    /\ lastError = NoError
    /\ raised = <<>>
    /\ page = BlankPage
    /\ curUrl = <<"about:blank">>
    /\ navs = <<>>
    /\ saved = <<>>
    /\ result = NoResult
    /\ snap = NoSnap
    /\ nav = NoNav
    /\ NoBatch
    /\ NoText

\* time.monotonic() is read in clock ticks, Window of them to 60 seconds; the
\* limiter keeps _window_start, and the model keeps what acquire reads of it:
\* window_age, the ticks since _window_start, which stops counting at Window
\* (acquire only asks whether 60 seconds have passed).
\* __init__: the window starts now and holds no item
NewLimiter(max_items_per_minute) ==
    [max_items_per_minute |-> max_items_per_minute, window_age |-> 0,
     window_items |-> 0]

InitLimiter ==
    /\ pc = "l_run"
    /\ RestIdle
    /\ limiter \in { NewLimiter(m) : m \in 1..MaxLimit }
    /\ acq = [at |-> "idle", items |-> 0, last |-> "none"]
    /\ recent = <<>>
    /\ NoPost
    /\ NoPaging
    /\ NoPush

\* a test that lets every request in
FitsAlways(window_items, items, max_items_per_minute) == TRUE

\* line 54: the items fit into what is left of the window
Fits(window_items, items, max_items_per_minute) ==
    window_items + items <= max_items_per_minute

\* line 49: elapsed >= 60
WindowOver(elapsed) == elapsed >= Window

\* acquire(items) is called; with items <= 0 it returns at once (lines 42-43)
CallAcquire ==
    /\ pc = "l_run"
    /\ acq.at = "idle"
    /\ \E items \in (0 - 1)..MaxItems :
         acq' = IF items <= 0
                THEN [at |-> "idle", items |-> items, last |-> "nothing to admit"]
                ELSE [at |-> "loop", items |-> items, last |-> "none"]
    /\ UNCHANGED <<pc, limiter, recent, engineVars, batchVars, textVars, clientVars, push>>

\* one pass of the loop, lines 46-58: the clock is read, a window that is over
\* is replaced by an empty one that starts now, and then the items are either
\* added to the window, and acquire returns, or acquire goes to sleep
LIterate ==
    /\ pc = "l_run"
    /\ acq.at = "loop"
    /\ LET w == IF WindowOver(limiter.window_age)
                THEN [limiter EXCEPT !.window_age = 0, !.window_items = 0]
                ELSE limiter
       IN  IF Fits(w.window_items, acq.items, w.max_items_per_minute)
           THEN /\ limiter' = [w EXCEPT !.window_items = @ + acq.items]
                /\ acq' = [acq EXCEPT !.at = "idle", !.last = "admitted"]
                /\ recent' = Append(recent, [age |-> 0, items |-> acq.items])
           ELSE /\ limiter' = w
                /\ acq' = [acq EXCEPT !.at = "sleep"]
                /\ UNCHANGED recent
    /\ UNCHANGED <<pc, engineVars, batchVars, textVars, clientVars, push>>

\* line 58: time.sleep(60 - elapsed + 0.05) ends once the window is 60 seconds
\* old, and the loop starts over
LWake ==
    /\ pc = "l_run"
    /\ acq.at = "sleep"
    /\ limiter.window_age >= Window
    /\ acq' = [acq EXCEPT !.at = "loop"]
    /\ UNCHANGED <<pc, limiter, recent, engineVars, batchVars, textVars, clientVars, push>>

\* the admissions of q one tick later, without those 60 seconds old
Aged(q) ==
    SelectSeq([ i \in 1..Len(q) |-> [q[i] EXCEPT !.age = @ + 1] ],
              LAMBDA a : a.age < Window)

\* a tick of the clock passes, between two calls or while acquire sleeps
Tick ==
    /\ pc = "l_run"
    /\ limiter' = [limiter EXCEPT !.window_age = IF @ < Window THEN @ + 1 ELSE @]
    /\ recent' = Aged(recent)
    /\ UNCHANGED <<pc, acq, engineVars, batchVars, textVars, clientVars, push>>

NextLimiter == CallAcquire \/ LIterate \/ LWake \/ Tick
SpecLimiter == InitLimiter /\ [][NextLimiter]_vars

\* the clock goes on and a running acquire takes its next step
SpecLimiterLive ==
    /\ SpecLimiter
    /\ WF_vars(Tick)
    /\ WF_vars(LIterate)
    /\ WF_vars(LWake)

\* -------------------------------------------------------- OzonClient._post
\* stop_after_attempt(5)
StopAfterAttempt == 5

\* what one self._client.post can bring: an exception of the transport, a
\* status of 400 or above, and with a status below 400 a body that is not
\* JSON, an object whose "error" is non-empty, an object whose "error" is
\* present but empty, an object without "error", or a JSON list
PostResponses ==
    {"transport error", "status 500", "not json", "error set", "error empty",
     "data", "json list"}

\* a body of _post that raises on a bad status only
RaisesOnStatus(resp) == resp \in {"transport error", "status 500"}

\* lines 125-131: the attempt ends with an exception
Raises(resp) == resp \in {"transport error", "status 500", "not json", "error set"}

InitPost ==
    /\ pc = "p_run"
    /\ RestIdle
    /\ NoLimiter
    /\ NoPost
    /\ NoPaging
    /\ NoPush

\* _post(path, payload) is called
CallPost ==
    /\ pc = "p_run"
    /\ post.at = "idle"
    /\ post' = [post EXCEPT !.at = "trying"]
    /\ UNCHANGED <<pc, engineVars, batchVars, textVars, limiterVars, paging, push>>

\* one attempt: the request is made and its response looked at; the retry
\* decorator returns what the body returned, calls the body again after an
\* exception, and gives up after the fifth
PostAttempt ==
    /\ pc = "p_run"
    /\ post.at = "trying"
    /\ \E resp \in PostResponses :
         LET log == Append(post.log, resp)
         IN  post' = IF ~Raises(resp)
                     THEN [at |-> "returned", log |-> log, out |-> resp]
                     ELSE IF Len(log) >= StopAfterAttempt
                     THEN [at |-> "failed", log |-> log, out |-> "RetryError"]
                     ELSE [post EXCEPT !.log = log]
    /\ UNCHANGED <<pc, engineVars, batchVars, textVars, limiterVars, paging, push>>

NextPost == CallPost \/ PostAttempt
SpecPost == InitPost /\ [][NextPost]_vars

\* ------------------------------------------------------ list_products_all
\* an item of a page, as far as lines 179-192 tell items apart: one that is
\* listed, an archived one, one without offer_id, and one whose product_id
\* is missing, on which int() raises
ItemKinds == {"listed", "archived", "no offer_id", "no product_id"}
ItemLists == {<<>>} \cup { <<k>> : k \in ItemKinds }

\* what _post gives to list_products_all: the result of a page with its
\* last_id (missing, empty or a cursor) and its items, a JSON list, or the
\* error of a call that used up its attempts
PageCursors == {PyNone, <<>>, <<"a">>, <<"b">>}
PageOutcomes ==
    { [kind |-> "data", last_id |-> c, items |-> its] :
          c \in PageCursors, its \in ItemLists }
      \cup { [kind |-> k, last_id |-> PyNone, items |-> <<>>] :
                k \in {"json list", "RetryError"} }

\* the page limits a call can end up with: `limit or ozon_limit_per_page`
PageLimits == {0, 1, 1000, 1001}

\* line 176: result.get("last_id") or ""
NextLastId(r) == IF r.last_id = PyNone THEN <<>> ELSE r.last_id

\* a test that ends the loop after every page
LastPageAlways(last_id) == TRUE

\* line 195: not last_id
LastPage(last_id) == last_id = <<>>

\* lines 178-192: the items of the page that are appended to out
ListedOf(items, include_archived) ==
    SelectSeq(items, LAMBDA k : k = "listed" \/ (k = "archived" /\ include_archived))

InitPaging ==
    /\ pc = "g_run"
    /\ RestIdle
    /\ NoLimiter
    /\ NoPost
    /\ NoPaging
    /\ NoPush

\* list_products_all(include_archived, limit) is called: lines 157-162
CallList ==
    /\ pc = "g_run"
    /\ paging.at = "idle"
    /\ \E include_archived \in BOOLEAN, page_limit \in PageLimits :
         paging' = [paging EXCEPT
                       !.include_archived = include_archived,
                       !.at = IF page_limit < 1 \/ page_limit > 1000
                              THEN "raised" ELSE "loop"]
    /\ UNCHANGED <<pc, engineVars, batchVars, textVars, limiterVars, post, push>>

\* one pass of the loop, lines 165-196: the request carries last_id; what
\* _post raises leaves the call; last_id is taken from the response, the
\* items are converted and filtered, and the loop ends on an empty last_id
PageStep ==
    /\ pc = "g_run"
    /\ paging.at = "loop"
    /\ Len(paging.sent) < MaxPages
    /\ \E r \in PageOutcomes :
         LET sent == Append(paging.sent, paging.last_id)
             got == Append(paging.got, r)
         IN  paging' =
               IF r.kind # "data"
               THEN [paging EXCEPT !.at = "raised", !.sent = sent, !.got = got]
               ELSE IF \E i \in 1..Len(r.items) : r.items[i] = "no product_id"
               THEN [paging EXCEPT !.at = "raised", !.sent = sent, !.got = got,
                                   !.last_id = NextLastId(r)]
               ELSE [paging EXCEPT
                        !.at = IF LastPage(NextLastId(r)) THEN "returned" ELSE "loop",
                        !.sent = sent, !.got = got,
                        !.last_id = NextLastId(r),
                        !.out = @ \o ListedOf(r.items, paging.include_archived)]
    /\ UNCHANGED <<pc, engineVars, batchVars, textVars, limiterVars, post, push>>

NextPaging == CallList \/ PageStep
SpecPaging == InitPaging /\ [][NextPaging]_vars

\* ------------------------------------------- OzonUpdater and the two pushes
\* Lists of update items are kept by their length. push is
\*   kind      the function running: a push, or a method of OzonUpdater
\*             called on its own
\*   items     the number of update items
\*   batches   _chunked(items, size), each batch by its length
\*   ix        the batch the loop is at
\*   bad       the items of the batches that failed (lines 225, 291)
\*   client    the OzonUpdater of the push: none, open or closed
\*   passed    the lengths of the lists passed to import_prices / update_stocks
\*   requests  the requests handed to _post, each with path and length
\*   exit      how the function ended
\* import_prices takes at most 1000 items (line 73), update_stocks 100 (95)
MaxPerImport == 1000
MaxPerStocks == 100
\* the batch sizes of push_prices_to_ozon (206) and push_stocks_to_ozon (272)
PriceBatch == 1000
StockBatch == 100

ItemCounts == {0, 1, 99, 100, 101, 250, 1000, 1001, 2001}
RateLimits == {50, 500, 8000, 10000}

\* a split that keeps everything in one batch
ChunkedWhole(n, size) == <<n>>

\* _chunked on a list of n items: the lengths of the batches
Chunked(n, size) ==
    [ i \in 1..((n + size - 1) \div size) |->
          IF i * size <= n THEN size ELSE n - (i - 1) * size ]

\* what _post gives to a method of OzonUpdater
UpdateOutcomes == {"data", "json list", "RetryError"}

\* import_prices / update_stocks on a list of n items, when _post would give
\* outcome: what the method returns or raises, and the request it makes
UpdaterCall(method, n, outcome) ==
    LET most == IF method = "import_prices" THEN MaxPerImport ELSE MaxPerStocks
        path == IF method = "import_prices" THEN "/v1/product/import/prices"
                ELSE "/v2/products/stocks"
    IN  IF n = 0 THEN [out |-> "empty result", requests |-> <<>>]
        ELSE IF n > most THEN [out |-> "ValueError", requests |-> <<>>]
        ELSE [out |-> outcome, requests |-> << [path |-> path, items |-> n] >>]

\* an exit that leaves the client as it is
FinallySkipped(client) == client

\* lines 238-239, 304-305: finally: oz.close()
Finally(client) == "closed"

InitPush ==
    /\ pc = "u_run"
    /\ RestIdle
    /\ NoLimiter
    /\ NoPost
    /\ NoPaging
    /\ NoPush

\* a method of OzonUpdater is called on its own with a list of n items
CallUpdater ==
    /\ pc = "u_run"
    /\ push.at = "idle"
    /\ \E method \in {"import_prices", "update_stocks"}, n \in ItemCounts,
          outcome \in UpdateOutcomes :
         LET r == UpdaterCall(method, n, outcome)
         IN  push' = [push EXCEPT !.at = "ended", !.kind = method, !.items = n,
                                  !.passed = <<n>>, !.requests = r.requests,
                                  !.exit = r.out]
    /\ UNCHANGED <<pc, engineVars, batchVars, textVars, limiterVars, clientVars>>

\* push_prices_to_ozon / push_stocks_to_ozon is called, up to its loop:
\* push_stocks_to_ozon raises without a warehouse id (257-263), no items end
\* the push (201-203, 267-269), else the batches are cut and the limiter and
\* the OzonUpdater are made
CallPush ==
    /\ pc = "u_run"
    /\ push.at = "idle"
    /\ \E kind \in {"prices", "stocks"}, dry_run \in BOOLEAN, warehouse \in BOOLEAN,
          limit \in RateLimits, n \in ItemCounts :
         push' =
           IF kind = "stocks" /\ ~warehouse
           THEN [push EXCEPT !.at = "ended", !.kind = kind, !.exit = "RuntimeError"]
           ELSE IF n = 0
           THEN [push EXCEPT !.at = "ended", !.kind = kind, !.exit = "returned"]
           ELSE [push EXCEPT
                    !.at = "loop", !.kind = kind, !.dry_run = dry_run,
                    !.limit = limit, !.items = n,
                    !.batches = Chunked(n, IF kind = "prices" THEN PriceBatch
                                           ELSE StockBatch),
                    !.client = "open"]
    /\ UNCHANGED <<pc, engineVars, batchVars, textVars, limiterVars, clientVars>>

\* one pass of the loop, lines 214-235 / 280-301: limiter.acquire returns only
\* for a batch that is not larger than the limit; a dry run goes on to the
\* next batch; else the batch is passed to the updater: an exception of the
\* call is counted and the loop goes on, a response that is not an object
\* raises out of the loop, and the finally clause closes the client. The
\* counters ok and bad of lines 228-233 are only logged and depend on the
\* body of the response; they are left out.
PushBatch ==
    /\ pc = "u_run"
    /\ push.at = "loop"
    /\ push.ix <= Len(push.batches)
    /\ push.batches[push.ix] <= push.limit
    /\ \E outcome \in UpdateOutcomes :
         LET size == push.batches[push.ix]
             r == UpdaterCall(IF push.kind = "prices" THEN "import_prices"
                              ELSE "update_stocks", size, outcome)
         IN  push' =
               IF push.dry_run THEN [push EXCEPT !.ix = @ + 1]
               ELSE IF r.out \in {"RetryError", "ValueError"}
               THEN [push EXCEPT !.ix = @ + 1, !.bad = @ + size,
                                 !.passed = Append(@, size),
                                 !.requests = @ \o r.requests]
               ELSE IF r.out = "json list"
               THEN [push EXCEPT !.at = "ended", !.exit = "AttributeError",
                                 !.passed = Append(@, size),
                                 !.requests = @ \o r.requests,
                                 !.client = Finally(@)]
               ELSE [push EXCEPT !.ix = @ + 1,
                                 !.passed = Append(@, size),
                                 !.requests = @ \o r.requests]
    /\ UNCHANGED <<pc, engineVars, batchVars, textVars, limiterVars, clientVars>>

\* the loop is through: lines 237-239 / 303-305
PushEnd ==
    /\ pc = "u_run"
    /\ push.at = "loop"
    /\ push.ix > Len(push.batches)
    /\ push' = [push EXCEPT !.at = "ended", !.exit = "returned",
                            !.client = Finally(@)]
    /\ UNCHANGED <<pc, engineVars, batchVars, textVars, limiterVars, clientVars>>

NextPush == CallUpdater \/ CallPush \/ PushBatch \/ PushEnd
SpecPush == InitPush /\ [][NextPush]_vars

\* ------------------------------------------------------------ properties
Last(q) == q[Len(q)]
CountOf(q, x) == Cardinality({ i \in 1..Len(q) : q[i] = x })
IsPrefix(a, b) == Len(a) <= Len(b) /\ \A i \in 1..Len(a) : a[i] = b[i]
IsSearchUrl(u) == Len(u) >= 2 /\ u[2] = "/search?pcode="
SearchNavs == SelectSeq(navs, IsSearchUrl)

GuestArtifacts == {"search_guest_mode.html", "search_detail_guest_mode.html"}
GuestSeenInResolve == \E i \in 1..Len(saved) : saved[i] \in GuestArtifacts

\* C1: once _resolve_parts_ref_by_pcode has found a search page or a detail
\* page in guest mode, the call has failed with the access-denied error: no
\* step of the call, and so no search navigation, follows the detection.
C1_GuestModeEndsResolution ==
    GuestSeenInResolve =>
        pc = "idle" /\ result.kind = "raise" /\ result.err = "GuestMode"

\* the title block or a matching row makes the page shown a DirectHit for the
\* variant being tried
DirectHitShown ==
    /\ pc = "r_classify"
    /\ \/ /\ page.title
          /\ Or(Text(page.tBrand), Text(page.dBrand)) # <<>>
          /\ Or(Text(page.tNumber), Text(page.dNumber)) # <<>>
       \/ \E i \in 1..Len(page.rows) : RowPasses(page.rows[i], NormalizePcode(One))

\* C2: when the search page of a variant classifies as DirectHit, the next
\* step of the call returns the part reference: that variant was navigated to
\* exactly once, it is the last navigation (no detail page is followed), and
\* no later variant is taken up.
C2_DirectHitReturnsAtOnce ==
    [][DirectHitShown =>
          /\ pc' = "idle"
          /\ result'.kind = "ref"
          /\ result'.brand # <<>> /\ result'.number # <<>>
          /\ navs' = navs
          /\ vi' = vi
          /\ Last(navs) = SearchUrl(One)
          /\ CountOf(navs, SearchUrl(One)) = 1]_vars

\* a DirectHit on the first of two variants has returned after one navigation
C2_Witness ==
    /\ pc = "idle" /\ op = "resolve" /\ result.kind = "ref"
    /\ Len(variants) = 2 /\ vi = 1
    /\ navs = <<SearchUrl(variants[1])>>

\* the brand and the number the page a ListHit links to exposes: the spans of
\* its title block, or of the document when it has no title block
ExposedBrand == Text(IF page.title THEN page.tBrand ELSE page.dBrand)
ExposedNumber == Text(IF page.title THEN page.tNumber ELSE page.dNumber)

\* the reference a DirectHit with this brand and number returns (lines 199-204)
DirectHitRef(brand, number) ==
    RefResult(brand, number,
              BASE \o <<"/parts/">> \o Quote(brand, {}) \o <<"/">> \o Quote(number, {}))

\* C3: when the first search page is a ListHit and the detail page exposes
\* brand and number, the call returns after exactly two navigations, the
\* search and the detail, with the reference a DirectHit with that brand and
\* number returns.
C3_ListHitDetailReturnsRef ==
    [][(pc = "d_extract" /\ vi = 1 /\ ExposedBrand # <<>> /\ ExposedNumber # <<>>) =>
          /\ pc' = "idle"
          /\ result' = DirectHitRef(ExposedBrand, ExposedNumber)
          /\ navs' = navs
          /\ Len(navs) = 2
          /\ navs[1] = SearchUrl(variants[1])
          /\ navs[2] = curUrl /\ ~IsSearchUrl(navs[2])]_vars

\* a ListHit on the first variant, followed to a detail page with a title
\* block, has returned the reference of the brand and number in that block
C3_Witness ==
    /\ pc = "idle" /\ op = "resolve" /\ result.kind = "ref"
    /\ Len(navs) = 2 /\ ~IsSearchUrl(navs[2])
    /\ page.title /\ page.dBrand = BrandSpaced
    /\ result = DirectHitRef(Brand3RG, Num31311)

\* the code with every separator removed
Stripped(code) == SelectSeq(code, IsAlnum)

\* the first variant was searched and gave NoMatch: no error, no detail page
FirstGaveNoMatch ==
    /\ Len(variants) = 2 /\ vi = 2
    /\ raised = <<>>
    /\ navs = <<SearchUrl(variants[1]), SearchUrl(variants[2])>>

\* C4: when the code as given yields NoMatch the call goes on to the
\* separator-stripped variant, and when that one yields DirectHit the call
\* returns its reference, after two search navigations in total.
C4_SecondVariantResolves ==
    [][/\ (pc = "r_classify" /\ vi = 1 /\ variants[1] = pcode
            /\ Stripped(pcode) \notin {pcode, <<>>}
            /\ ~DirectHitShown /\ ~Truthy(page.link)) =>
              /\ pc' = "r_goto" /\ vi' = 2
              /\ Len(variants) = 2 /\ variants[2] = Stripped(pcode)
       /\ (DirectHitShown /\ FirstGaveNoMatch /\ variants[1] = pcode) =>
              /\ pc' = "idle" /\ result'.kind = "ref"
              /\ result'.brand # <<>> /\ result'.number # <<>>
              /\ Len(SearchNavs') = 2 /\ navs' = navs]_vars

\* NoMatch on "A-", then a DirectHit on "A", has returned a reference
C4_Witness ==
    /\ pc = "idle" /\ op = "resolve" /\ result.kind = "ref"
    /\ pcode = <<"A", "-">>
    /\ raised = <<>>
    /\ navs = <<SearchUrl(<<"A", "-">>), SearchUrl(<<"A">>)>>

\* the sequence the claim lets a call search: the code, then the stripped code
\* when it differs
QueriesOf(code) ==
    <<SearchUrl(code)>> \o
    (IF Stripped(code) # code THEN <<SearchUrl(Stripped(code))>> ELSE <<>>)

\* C5 as stated: the searches of a call are a prefix of the code as given
\* followed by its stripped form.
C5_AsStated == op = "resolve" => IsPrefix(SearchNavs, QueriesOf(pcode))

\* C5: the searches of a call are a prefix of: the code with leading and
\* trailing whitespace removed, then that code with every separator removed
\* when it differs; so a call makes at most two search navigations and never
\* searches the stripped form first.
C5_SearchOrder ==
    op = "resolve" =>
        /\ IsPrefix(SearchNavs, QueriesOf(Strip(pcode)))
        /\ Len(SearchNavs) <= 2

\* both variants of "A-" have been searched
C5_Witness ==
    /\ op = "resolve" /\ pcode = <<"A", "-">>
    /\ SearchNavs = <<SearchUrl(<<"A", "-">>), SearchUrl(<<"A">>)>>

\* C6: a call that ends without a reference has tried every variant, has
\* written the final artifact once, as its last artifact, and fails with the
\* resolution-failed error raised from the most recent error a variant
\* raised, or from nothing when no variant raised.
C6_FinalFailure ==
    (pc = "idle" /\ op = "resolve" /\ result.kind # "ref") =>
        /\ result.kind = "raise" /\ result.err = "Unresolved"
        /\ vi = Len(variants) + 1
        /\ saved # <<>> /\ Last(saved) = "search_unresolved.html"
        /\ CountOf(saved, "search_unresolved.html") = 1
        /\ result.cause = (IF raised = <<>> THEN NoError ELSE Last(raised))

\* two variants raised different errors and the failure wraps the second
C6_Witness ==
    /\ pc = "idle" /\ op = "resolve" /\ result.err = "Unresolved"
    /\ Len(raised) = 2 /\ raised[1] # raised[2]
    /\ result.cause = raised[2]

\* C7: after the scoped acquisition has ended, in whatever way, the page,
\* the context, the browser and the engine are closed, also when one of the
\* close calls raised.
C7_AllReleased ==
    pc = "exited" =>
        /\ sess.pages = 0
        /\ sess.context = "closed"
        /\ sess.browser = "closed"
        /\ sess.engine = "stopped"

\* C8: when the extraction step runs on a detail page without an availability
\* block, the call writes the no-offers artifact and returns brand and number
\* as read from the page, with no offer; it does not raise.
C8_NoBlockReturnsNullOffer ==
    [][(pc = "f_extract" /\ page.blocks = <<>>) =>
          /\ pc' = "idle"
          /\ result'.kind = "tuple"
          /\ result'.offer = NoOffer
          /\ result'.brand = (IF Text(page.dBrand) = <<>> THEN PyNone ELSE Text(page.dBrand))
          /\ result'.number = (IF Text(page.dNumber) = <<>> THEN PyNone ELSE Text(page.dNumber))
          /\ saved' = Append(saved, "parts_no_offers.html")]_vars

\* a page with a brand, no number and no block has given (brand, None, None)
C8_Witness ==
    /\ pc = "idle" /\ op = "fetch" /\ result.kind = "tuple"
    /\ page.blocks = <<>>
    /\ result.brand = <<"A", " ", "B">> /\ result.number = PyNone
    /\ result.offer = NoOffer
    /\ saved = <<"parts_no_offers.html">>

\* C9: the offer a call returns is the one built from the first availability
\* block of the page, whatever blocks follow it.
C9_FirstBlockOnly ==
    (pc = "idle" /\ op = "fetch" /\ result.kind = "tuple" /\ page.blocks # <<>>) =>
        /\ OfferOf(page.blocks[1]).ok
        /\ result.offer = OfferOf(page.blocks[1]).val

\* a page whose second block is larger and cheaper than its first
C9_Witness ==
    /\ pc = "idle" /\ op = "fetch" /\ result.kind = "tuple"
    /\ page.blocks = <<BlkSigned, BlkPlain>>
    /\ result.offer.qty = 3

\* C10: when the page the /parts navigation reached is in guest mode, the
\* guest-mode check ends the call: it writes the artifact of the parts stage
\* and raises the access-denied error, with one navigation made and without
\* a wait or an extraction step.
C10_GuestModeEndsFetch ==
    [][(pc = "f_guest" /\ page.guest) =>
          /\ pc' = "idle"
          /\ result' = RaiseResult("GuestMode", NoError)
          /\ saved' = <<"parts_guest_mode.html">>
          /\ navs' = navs /\ Len(navs) = 1]_vars

\* a fetch has failed on a guest-mode page that shows brand, number and a block
C10_Witness ==
    /\ pc = "idle" /\ op = "fetch" /\ page.guest /\ page.blocks # <<>>
    /\ result.err = "GuestMode"
    /\ saved = <<"parts_guest_mode.html">>

\* the page shown has no availability block, no brand and no number element
NothingAppears == page.blocks = <<>> /\ page.dBrand = NoEl /\ page.dNumber = NoEl

\* C11: when the wait of _fetch_first_offer_from_parts runs on a page where
\* neither an availability block nor a brand or number element appears, the
\* call writes the timeout artifact and raises the page-timeout error, raised
\* from the timeout of the wait; it returns no tuple, so no offer and no brand
\* or number, and it does not navigate again.
C11_WaitTimeoutFails ==
    [][(pc = "f_wait" /\ NothingAppears) =>
          /\ pc' = "idle"
          /\ result' = RaiseResult("PartsTimeout", PWTimeout("parts"))
          /\ result'.offer = NoOffer /\ result'.brand = <<>> /\ result'.number = <<>>
          /\ saved' = Append(saved, "parts_timeout.html")
          /\ navs' = navs]_vars

\* a fetch has timed out on a page with none of the awaited elements
C11_Witness ==
    /\ pc = "idle" /\ op = "fetch" /\ NothingAppears /\ ~page.guest
    /\ nav.checked
    /\ result.err = "PartsTimeout"
    /\ saved = <<"parts_timeout.html">>

\* a fetch_product_snapshot that went through resolution has returned
CycleReturned ==
    /\ pc = "idle" /\ op = "snapshot" /\ snap.at = "none"
    /\ result.kind = "snapshot" /\ snap.resolved.kind = "ref"

\* C12: the brand and the number of the snapshot a resolution-plus-extraction
\* cycle returns are the ones the /parts page shows, whenever it shows one,
\* also when resolution had found another brand or number.
C12_SnapshotCarriesPageValues ==
    CycleReturned =>
        /\ (Text(page.dBrand) # <<>> => result.brand = Text(page.dBrand))
        /\ (Text(page.dNumber) # <<>> => result.number = Text(page.dNumber))

\* the parts_url argument with surrounding whitespace removed; empty for None
TrimmedAddress == Strip(IF snap.parts_url = PyNone THEN <<>> ELSE snap.parts_url)

FetchPcs == {"f_goto", "f_sleep", "f_guest", "f_wait", "f_extract"}

\* a call without a usable address reaches the /parts stage only with the
\* reference resolution returned, and fetches the address of that reference
ResolutionCameFirst ==
    (pc \in FetchPcs \/ snap.at = "fetching" \/ result.kind = "snapshot") =>
        /\ snap.resolved.kind = "ref"
        /\ (pc \in FetchPcs => curUrl = snap.resolved.url)
        /\ (result.kind = "snapshot" => result.url = snap.resolved.url)

\* C13 as stated: with a non-blank parts_url no search is made, the one
\* navigation goes to the address as supplied and the snapshot carries the
\* address as supplied; with a blank or missing one resolution comes first.
C13_AsStated ==
    op = "snapshot" =>
        IF TrimmedAddress # <<>>
        THEN /\ SearchNavs = <<>>
             /\ snap.resolved.kind = "none"
             /\ IsPrefix(navs, <<snap.parts_url>>)
             /\ (result.kind = "snapshot" =>
                   navs = <<snap.parts_url>> /\ result.url = snap.parts_url)
        ELSE ResolutionCameFirst

\* C13: with a non-blank parts_url no search is made and resolution does not
\* run; the one navigation goes to the supplied address with leading and
\* trailing whitespace removed, and the snapshot carries that trimmed address;
\* with a blank or missing parts_url resolution comes first.
C13_SuppliedAddressSkipsResolution ==
    op = "snapshot" =>
        IF TrimmedAddress # <<>>
        THEN /\ SearchNavs = <<>>
             /\ snap.resolved.kind = "none"
             /\ IsPrefix(navs, <<TrimmedAddress>>)
             /\ (result.kind = "snapshot" =>
                   navs = <<TrimmedAddress>> /\ result.url = TrimmedAddress)
        ELSE ResolutionCameFirst

\* a snapshot was returned for an address supplied with whitespace around it
C13_Witness ==
    /\ pc = "idle" /\ op = "snapshot" /\ snap.at = "none"
    /\ result.kind = "snapshot"
    /\ snap.parts_url = <<" ">> \o SnapUrl \o <<" ">>
    /\ navs = <<SnapUrl>> /\ result.url = SnapUrl

\* the next step of the call is a page.goto
NavPcs == {"r_goto", "d_goto", "f_goto", "e_goto", "l_goto"}

\* C14: whenever a navigation is about to start, the delay that follows the
\* previous navigation of the session has run, also when that navigation
\* failed or timed out.
C14_DelayBetweenNavigations == pc \in NavPcs => nav.paced

\* the next step of the call reads the markup of the page shown, to classify
\* it, to wait for its elements or to extract from it
ReadPcs == {"r_classify", "d_extract", "f_wait", "f_extract"}

\* C15: whenever resolution or extraction is about to read the markup of a
\* page, the guest test has run on that page since the navigation to it and
\* has not found guest mode; a reference, an offer tuple or a snapshot is
\* only ever returned from such a page, and ensure_logged_in returns without
\* logging in only after the guest test has passed on the page it navigated to.
C15_CheckedBeforeRead ==
    /\ pc \in ReadPcs => nav.checked /\ ~page.guest
    /\ result.kind \in {"ref", "tuple", "snapshot"} => nav.checked /\ ~page.guest
    /\ result.kind = "ok" => nav.checked /\ ~page.guest /\ navs = <<HomeUrl>>

\* a detail page followed from a ListHit is about to be read after its check
C15_Witness ==
    /\ pc = "d_extract" /\ nav.checked /\ nav.paced
    /\ Len(navs) = 2 /\ page.title

\* what the search page shown offers for the variant being tried: a title
\* block with brand and number, a result row that is taken, the link of the
\* first row
TitleHitShown ==
    /\ page.title
    /\ Or(Text(page.tBrand), Text(page.dBrand)) # <<>>
    /\ Or(Text(page.tNumber), Text(page.dNumber)) # <<>>
RowHitShown == \E i \in 1..Len(page.rows) : RowPasses(page.rows[i], NormalizePcode(One))
LinkShown == Truthy(page.link)

\* the references the title block and the first row that is taken stand for
TitleRef ==
    DirectHitRef(Or(Text(page.tBrand), Text(page.dBrand)),
                 Or(Text(page.tNumber), Text(page.dNumber)))
RowRef ==
    LET i == CHOOSE k \in 1..Len(page.rows) :
                 /\ RowPasses(page.rows[k], NormalizePcode(One))
                 /\ \A j \in 1..(k - 1) : ~RowPasses(page.rows[j], NormalizePcode(One))
    IN  DirectHitRef(Strip(page.rows[i].imgBrand), Strip(page.rows[i].imgNumber))

\* C16: the classification of a search page takes the title block with brand
\* and number when there is one, whatever rows and link the page has; else
\* the first result row that is taken, whatever link the page has; else the
\* link of the first row, which is followed as a ListHit; and it is NoMatch,
\* the loop moving on, only when the page has none of the three.
C16_ClassificationPriority ==
    [][pc = "r_classify" =>
          IF TitleHitShown THEN pc' = "idle" /\ result' = TitleRef
          ELSE IF RowHitShown THEN pc' = "idle" /\ result' = RowRef
          ELSE IF LinkShown
          THEN pc' = "d_goto" /\ result' = result /\ vi' = vi
          ELSE pc' = AfterVariant /\ vi' = vi + 1 /\ result' = result
               /\ raised' = raised]_vars

\* a page with a title block, a row that is taken and a link has given the
\* reference of the title block
C16_Witness ==
    /\ pc = "idle" /\ op = "resolve" /\ result.kind = "ref"
    /\ TitleHitShown /\ RowHitShown /\ LinkShown
    /\ result = TitleRef /\ result # RowRef

\* the row displays a code that normalizes to the requested one and carries
\* brand and number in its image attributes
RowDisplaysMatch(row, code) ==
    /\ row.code # NoEl
    /\ NormalizePcode(Text(row.code)) = NormalizePcode(code)
    /\ Truthy(row.imgBrand) /\ Truthy(row.imgNumber)

\* a search page without a usable title block has given a reference
RowGaveDirectHit ==
    /\ pc = "idle" /\ op = "resolve" /\ result.kind = "ref"
    /\ navs # <<>> /\ IsSearchUrl(Last(navs))
    /\ ~TitleHitShown

\* C17: a reference that comes from a result row comes from a row that
\* displays a code equal, after normalization, to the requested code and that
\* carries brand and number in its image attributes; a row that displays
\* another code, or no code, gives none.
C17_RowHitNeedsDisplayedCode ==
    RowGaveDirectHit =>
        \E i \in 1..Len(page.rows) :
            /\ RowDisplaysMatch(page.rows[i], variants[vi])
            /\ result = DirectHitRef(Strip(page.rows[i].imgBrand),
                                     Strip(page.rows[i].imgNumber))

\* detail pages the loop has navigated to, and the errors raised at that stage
DetailNavs == SelectSeq(navs, LAMBDA u : ~IsSearchUrl(u))
DetailErrors == SelectSeq(raised, LAMBDA e : e.stage = "search_detail")

\* artifacts other than those of the guest test and of the final failure
MissArtifacts ==
    SelectSeq(saved, LAMBDA n : n \notin GuestArtifacts \cup {"search_unresolved.html"})

\* C18: whenever the loop is between two variants, or past the last one,
\* each detail page it followed without getting brand and number, and
\* without an error, has left one diagnostic artifact.
C18_DetailMissIsRecorded ==
    (op = "resolve" /\ pc \in {"r_goto", "r_final"}) =>
        Len(MissArtifacts) = Len(DetailNavs) - Len(DetailErrors)

\* C19: when the search page of a variant has no title block with brand and
\* number, no row that is taken and no link, the classification step moves
\* the loop to the next variant, records no error and writes no artifact; and
\* the search navigation that follows writes none either.
C19_NoMatchWritesNothing ==
    [][/\ (pc = "r_classify" /\ ~TitleHitShown /\ ~RowHitShown /\ ~LinkShown) =>
              /\ saved' = saved
              /\ pc' = AfterVariant /\ vi' = vi + 1
              /\ raised' = raised /\ lastError' = lastError
       /\ (pc = "r_goto" => saved' = saved)]_vars

\* the first variant gave NoMatch and the second is about to be searched,
\* with no artifact written
C19_Witness ==
    /\ pc = "r_goto" /\ op = "resolve" /\ vi = 2
    /\ navs = <<SearchUrl(variants[1])>>
    /\ ~page.guest /\ nav.checked
    /\ raised = <<>> /\ saved = <<>>

\* outcomes of rows for which fetch_product_snapshot was called
Attempts == {"done", "no_offer", "PricingError"} \cup SnapshotErrors

\* C20: once fetch_product_snapshot has failed with the guest-mode error for
\* one row, main calls it for no later row.
C20_AccessDeniedAbortsRun ==
    \A i \in 1..Len(outcomes) :
        outcomes[i] = "GuestMode" =>
            \A j \in (i + 1)..Len(outcomes) : outcomes[j] \notin Attempts

\* errors of one item other than the guest-mode error
ItemErrors == {"Unresolved", "PartsTimeout", "PWTimeout", "PricingError"}

\* C21: a resolution failure, a page timeout or a pricing error of one row
\* never ends the run: it is counted once in failed, for that row only, the
\* loop stands at the next row, and the loop ends only when every row of the
\* list has been passed.
C21_ItemErrorsDoNotStopLoop ==
    /\ (outcomes # <<>> /\ Last(outcomes) \in ItemErrors) =>
          pc \in {"b_loop", "b_done"} /\ rowIx = Len(outcomes) + 1
    /\ pc = "b_done" => Len(outcomes) = Len(rows)
    /\ failed = Cardinality({ i \in 1..Len(outcomes) :
                                outcomes[i] \in ItemErrors \cup {"GuestMode"} })

\* the first of two rows failed to resolve and the second was priced
C21_Witness ==
    /\ pc = "b_done" /\ Len(rows) = 2
    /\ outcomes = <<"Unresolved", "done">>
    /\ failed = 1 /\ done = 1

\* the except clause of the variant loop has caught the timeout of a page.goto
TimeoutCaught == \E i \in 1..Len(raised) : raised[i].kind = "PWTimeout"

\* C22: once a navigation or a wait of the running call has timed out, no
\* step of that call navigates again and none returns a reference.
C22_TimeoutEndsCall ==
    [][(pc # "idle" /\ TimeoutCaught) =>
          navs' = navs /\ result'.kind # "ref"]_vars

\* C23: no operation of the session sends the login form or rewrites the
\* stored state file.
C23_NeverAuthenticates == result.kind # "logged_in"

\* ensure_logged_in has returned without raising
EnsureReturned == pc = "idle" /\ op = "ensure" /\ result.kind \in {"ok", "logged_in"}

\* C24: ensure_logged_in returns normally only from its guest test, on the
\* page of its one navigation, and that page is not in guest mode; when the
\* test finds guest mode the call raises.
C24_ReturnsOnlyWhenNotGuest ==
    EnsureReturned => navs = <<HomeUrl>> /\ nav.checked /\ ~page.guest

\* the scoped acquisition has been entered and not yet left
Acquired == pc \notin {"out", "enter_failed", "exited"}

\* C25: from the moment __enter__ has returned until __exit__ runs, whatever
\* calls of search_pcode, get_first_offer_from_parts, fetch_product_snapshot
\* and ensure_logged_in are made and wherever they stand, the session has
\* exactly one page.
C25_OnePageWhileAcquired == Acquired => sess.pages = 1 /\ sess.context = "open"

\* a second call, a pre-flight check that logged in, has ended with one page
C25_Witness ==
    /\ pc = "idle" /\ calls = 2 /\ op = "ensure" /\ result.kind = "logged_in"
    /\ Len(navs) = 2
    /\ sess.pages = 1

\* C26: every reference _resolve_parts_ref_by_pcode returns, from a search
\* page or from a detail page, has a brand and a number that are not empty
\* and carry no surrounding whitespace, and its address is BASE, "/parts/",
\* the brand percent-encoded as one path segment, "/", and the number
\* percent-encoded as one path segment.
C26_ReferenceIsWellFormed ==
    result.kind = "ref" =>
        /\ result.brand # <<>> /\ Strip(result.brand) = result.brand
        /\ result.number # <<>> /\ Strip(result.number) = result.number
        /\ result.url = BASE \o <<"/parts/">> \o Quote(result.brand, {})
                             \o <<"/">> \o Quote(result.number, {})

\* a reference whose brand holds a space and whose number holds a slash
C26_Witness ==
    /\ pc = "idle" /\ op = "resolve" /\ result.kind = "ref"
    /\ result.brand = <<"A", " ", "B">> /\ result.number = <<"1", "/", "2">>
    /\ result.url = BASE \o <<"/parts/", "A", "%", "2", "0", "B", "/",
                              "1", "%", "2", "F", "2">>

\* the decimal digits of a text, in order
DecimalDigitsOf(s) == SelectSeq(s, LAMBDA ch : ch \in DecDigits)

\* C27: _parse_int returns for every text, and what it returns is the
\* base-10 value of the decimal digits of the text, 0 when it has none.
C27_ParseIntNeverRaises ==
    fn = "_parse_int" => ret.ok /\ ret.val = DecValue(DecimalDigitsOf(txt))

\* C28: _parse_price returns for every text; a text with no digit, comma or
\* dot, with no digit, or with more than one comma or dot gives 0.0; a text
\* of decimal digits without comma or dot gives their value; a comma is the
\* decimal point, and spaces between the thousands are dropped: the price
\* "1 234,50 $" gives 1234.5.
C28_PriceParses ==
    fn = "_parse_price" =>
        LET seps == SelectSeq(txt, LAMBDA ch : ch \in {",", "."})
            digits == SelectSeq(txt, IsDigit)
        IN  /\ ret.ok
            /\ ret.val.mant >= 0
            /\ (digits = <<>> \/ Len(seps) > 1 => ret.val = Zero)
            /\ (digits # <<>> /\ AllDecimal(digits) /\ seps = <<>>
                    => ret.val.scale = 0 /\ ret.val.mant = DecValue(digits))
            /\ (txt = <<"1", ",", "1">> => ret.val = [mant |-> 11, scale |-> 1])
            /\ (txt = PriceText => ret.val = [mant |-> 12345, scale |-> 1])

C28_Witness ==
    /\ fn = "_parse_price"
    /\ txt = PriceText
    /\ ret = Returned([mant |-> 12345, scale |-> 1])

\* C29: _normalize_pcode applied to what _normalize_pcode returned gives the
\* same text again, and every character of what it returns is alphanumeric
\* and is its own uppercase.
C29_NormalizeIsIdempotent ==
    /\ fn = "_normalize_pcode twice" => ret.val = NormalizePcode(txt)
    /\ fn \in {"_normalize_pcode", "_normalize_pcode twice"} =>
           \A i \in 1..Len(ret.val) :
               IsAlnum(ret.val[i]) /\ Upper(ret.val[i]) = ret.val[i]

C29_Witness ==
    /\ fn = "_normalize_pcode twice"
    /\ txt = <<"a", "-", "1">>
    /\ ret = Returned(<<"A", "1">>)

\* a call has returned a tuple or a snapshot that carries an offer
OfferProduced ==
    /\ pc = "idle"
    /\ result.kind \in {"tuple", "snapshot"}
    /\ result.offer # NoOffer

\* C30: every offer _fetch_first_offer_from_parts has built has a quantity
\* that is not negative and a price that is not negative, whatever the
\* selected block holds: elements that are missing, or a minus sign in front
\* of the quantity or the price.
C30_OfferIsNonNegative ==
    OfferProduced => result.offer.qty >= 0 /\ result.offer.price_rub.mant >= 0

\* an offer was built from a block without route and deadline whose quantity
\* reads -3 and whose price reads -1.5
C30_Witness ==
    /\ OfferProduced /\ op = "fetch"
    /\ page.blocks = <<BlkSigned>>
    /\ result.offer.qty = 3
    /\ result.offer.price_rub = [mant |-> 15, scale |-> 1]

\* the items of a list of admissions, added up
RECURSIVE SumItems(_)
SumItems(q) == IF q = <<>> THEN 0 ELSE Head(q).items + SumItems(Tail(q))

\* the admissions made since the window of the limiter started
InWindow == SelectSeq(recent, LAMBDA a : a.age <= limiter.window_age)

\* C31: _window_items never exceeds max_items_per_minute; while the window is
\* less than 60 seconds old it is the sum of the items admitted since the
\* window started; and _window_items goes down, or the window starts anew,
\* only in a step that found the window at least 60 seconds old.
C31_WindowNeverOverfilled ==
    /\ [](/\ limiter.window_items <= limiter.max_items_per_minute
          /\ limiter.window_age < Window =>
                 SumItems(InWindow) = limiter.window_items)
    /\ [][(limiter'.window_items < limiter.window_items
             \/ limiter'.window_age < limiter.window_age)
            => limiter.window_age >= Window]_vars

\* acquire has returned after filling a second window to the limit: an
\* admission of the window before is still less than 60 seconds old
C31_Witness ==
    /\ acq.at = "idle" /\ acq.last = "admitted"
    /\ limiter.window_items = limiter.max_items_per_minute
    /\ limiter.window_age < Window
    /\ \E i \in 1..Len(recent) : recent[i].age > limiter.window_age

\* C32: the items admitted within any 60 seconds are at most
\* max_items_per_minute: the admissions less than 60 seconds old never add up
\* to more than the limit.
C32_AnyMinuteWithinLimit ==
    SumItems(recent) <= limiter.max_items_per_minute

\* C33: when the clock goes on, every acquire(items) with items > 0 that has
\* entered its loop returns.
C33_AcquireReturns ==
    (acq.at = "loop") ~> (acq.at = "idle")

\* the response has a status below 400
StatusBelow400(resp) == resp \notin {"transport error", "status 500"}

\* the body of the response is an object with an "error" member
HasErrorField(resp) == resp \in {"error set", "error empty"}

\* the body parses as JSON and holds no non-empty "error"
Succeeds(resp) == resp \in {"error empty", "data", "json list"}


\* C34, as stated: the call returns the first attempt that has a status
\* below 400 and no error field, and goes on only after attempts that are
\* not of this kind.
C34_AsStated ==
    LET good(i) == StatusBelow400(post.log[i]) /\ ~HasErrorField(post.log[i])
        n == Len(post.log)
    IN  /\ post.at = "returned" => good(n) /\ \A i \in 1..(n - 1) : ~good(i)
        /\ post.at \in {"trying", "failed"} => \A i \in 1..n : ~good(i)

\* C34: one call of _post makes at least one and at most five requests; it
\* returns the data of the first attempt whose status is below 400 and whose
\* body parses as JSON and holds no non-empty error, and makes no request
\* after it; it goes on after every other attempt, and fails after the fifth.
C34_FirstSuccessOfFive ==
    LET n == Len(post.log)
    IN  /\ n <= 5
        /\ post.at \in {"returned", "failed"} => n >= 1
        /\ post.at = "returned" =>
               /\ Succeeds(post.log[n]) /\ post.out = post.log[n]
               /\ \A i \in 1..(n - 1) : ~Succeeds(post.log[i])
        /\ post.at = "trying" => n < 5 /\ \A i \in 1..n : ~Succeeds(post.log[i])
        /\ post.at = "failed" => n = 5 /\ \A i \in 1..n : ~Succeeds(post.log[i])

\* the fifth attempt succeeded after a body that was not JSON and an error
C34_Witness ==
    /\ post.at = "returned"
    /\ Len(post.log) = 5
    /\ post.log[3] = "not json" /\ post.log[4] = "error set"
    /\ post.out = "error empty"

\* the cursor a response carries; a missing last_id counts as empty
CursorOf(r) == IF r.kind = "data" /\ r.last_id # PyNone THEN r.last_id ELSE <<>>

\* the response is a page whose items all convert
PageConverts(r) ==
    r.kind = "data" /\ \A i \in 1..Len(r.items) : r.items[i] # "no product_id"

UpdaterCalled == push.kind \in {"import_prices", "update_stocks"}

\* a push was called
PushCalled == push.kind \in {"prices", "stocks"}

\* C36: import_prices with more than 1000 items and update_stocks with more
\* than 100 items raise ValueError and make no request; with no item they
\* return an empty result and make no request; and every list a push passes
\* to them has 1 to 1000 items (prices) or 1 to 100 items (stocks).
C36_BatchLimits ==
    /\ (UpdaterCalled /\ push.items > (IF push.kind = "import_prices" THEN 1000 ELSE 100))
           => push.exit = "ValueError" /\ push.requests = <<>>
    /\ (UpdaterCalled /\ push.items = 0)
           => push.exit = "empty result" /\ push.requests = <<>>
    /\ PushCalled =>
           \A i \in 1..Len(push.passed) :
               /\ push.passed[i] >= 1
               /\ push.passed[i] <= (IF push.kind = "prices" THEN 1000 ELSE 100)

\* import_prices was called with 1001 items
C36_Witness ==
    /\ push.kind = "import_prices"
    /\ push.items = 1001
    /\ push.exit = "ValueError"
    /\ push.requests = <<>>

\* C37: a push with dry_run passes no batch to the updater and makes no
\* request; and once a push has ended, by returning or by raising, with or
\* without dry_run, the OzonUpdater it opened is closed.
C37_DryRunSendsNothingClientClosed ==
    PushCalled =>
        /\ push.dry_run => push.requests = <<>> /\ push.passed = <<>>
        /\ push.at = "ended" => push.client # "open"
        /\ (push.at = "ended" /\ push.items > 0) => push.client = "closed"

\* a dry run of the push of stocks has gone through its three batches
C37_Witness ==
    /\ push.kind = "stocks" /\ push.dry_run
    /\ push.at = "ended" /\ push.exit = "returned"
    /\ push.batches = <<100, 100, 50>> /\ push.ix = 4
    /\ push.requests = <<>>
    /\ push.client = "closed"

\* C38: in the supplier loop of main every row the loop has passed is counted
\* in exactly one of done, skipped and failed: the three add up to the number
\* of rows passed so far, and to the number of rows once the loop is over.
C38_EveryRowCountedOnce ==
    /\ done + skipped + failed = Len(outcomes)
    /\ pc \in {"b_loop", "b_done"} => Len(outcomes) = rowIx - 1
    /\ pc = "b_done" => done + skipped + failed = Len(rows)
    /\ done = CountOf(outcomes, "done")
    /\ skipped = CountOf(outcomes, "filtered") + CountOf(outcomes, "no_offer")

\* the loop is over two rows: one was filtered out, one had no offer
C38_Witness ==
    /\ pc = "b_done" /\ Len(rows) = 2
    /\ outcomes = <<"filtered", "no_offer">>
    /\ skipped = 2 /\ done = 0 /\ failed = 0

\* C39: after an acquisition that failed, nothing it had started is left
\* running: the engine is not running, and no browser and no context is open.
C39_FailedAcquisitionReleases ==
    pc = "enter_failed" =>
        /\ sess.engine # "running"
        /\ sess.browser # "open"
        /\ sess.context # "open"

\* the code of the running or finished resolution is empty or only whitespace
BlankCode == \A i \in 1..Len(pcode) : IsSpace(pcode[i])

\* the code holds a character that is not whitespace, and no letter or digit
SeparatorsOnly == ~BlankCode /\ \A i \in 1..Len(pcode) : ~IsAlnum(pcode[i])

\* C40: a resolution of an empty or blank code navigates nowhere and ends
\* with the resolution-failed error raised without a cause; a resolution of a
\* code made only of separators makes one search navigation and no second.
C40_BlankCodeNeverNavigates ==
    (op = "resolve" /\ pc # "exited") =>
        /\ BlankCode =>
               /\ navs = <<>>
               /\ pc \in {"r_final", "idle"}
               /\ pc = "idle" => result = RaiseResult("Unresolved", NoError)
        /\ SeparatorsOnly =>
               /\ Len(SearchNavs) <= 1
               /\ pc = "idle" => Len(SearchNavs) = 1

\* the resolution of a code of one space has failed
C40_Witness ==
    /\ pc = "idle" /\ op = "resolve"
    /\ pcode = <<" ">>
    /\ navs = <<>>
    /\ result = RaiseResult("Unresolved", NoError)
====
